---- MODULE Spec2Model ----
(***************************************************************************)
(* Closed-loop chassis controller (ChassisControllerPID) and the           *)
(* skid-steer kinematics it drives.  Three threads share the controller:   *)
(* the background loop(), a client blocked in waitUntilSettled() and a     *)
(* client issuing moveDistanceAsync / turnAngleAsync / stop.               *)
(***************************************************************************)
EXTENDS Integers, Sequences, FiniteSets, TLC

\* --------------------------------------------------------------------------
\* Bounds of the model
\* --------------------------------------------------------------------------
\* targets handed to the motion commands are 1..MaxTarget
MaxTarget == 7
\* chassis scales (straight, turn) are 1..MaxScale
MaxScale == 25
\* gear ratios are 1..MaxRatio
MaxRatio == 2
\* a run issues at most MaxCalls commands (moveDistanceAsync, turnAngleAsync,
\* stop) and at most MaxWaits waitUntilSettled calls
MaxCalls == 2
MaxWaits == 1
\* the runs that settle one movement under the background loop issue at most
\* MaxSettleCalls commands
MaxSettleCalls == 1
\* the runs that stop a movement issue at most MaxStopCalls commands
MaxStopCalls == 3
\* speeds handed to the model are n / SpeedDen for n in -MaxSpeed..MaxSpeed
MaxSpeed == 40
\* encoder readings run from 0 to MaxSensor
MaxSensor == 1
\* with* calls made on the two builders before build()
MaxBuilderCalls == 3

\* --------------------------------------------------------------------------
\* IEEE-754 binary64 arithmetic on the values the conversions use.
\* A double is [sign, m, e]: sign * m * 2^e with m a 53-bit significand held
\* as a little-endian sequence of LimbBits-bit limbs (<<>> for zero).
\* --------------------------------------------------------------------------
MantissaBits == 53
LimbBits == 12
Limb == 2^LimbBits

Abs(n) == IF n < 0 THEN -n ELSE n
Sgn(n) == IF n < 0 THEN -1 ELSE 1

\* number of significant bits of a limb-sized natural
BitLen(x) == Cardinality({k \in 0..(2 * LimbBits) : 2^k <= x})

BigTrim(a) ==
  LET top == {i \in 1..Len(a) : a[i] # 0}
  IN  IF top = {} THEN <<>>
      ELSE SubSeq(a, 1, CHOOSE i \in top : \A j \in top : j <= i)

BigFromNat(n) == BigTrim(<<n % Limb, (n \div Limb) % Limb, n \div (Limb * Limb)>>)

BigBitLen(a) ==
  IF a = <<>> THEN 0 ELSE LimbBits * (Len(a) - 1) + BitLen(a[Len(a)])

\* bit i (from 0) of a
BigBit(a, i) ==
  IF i < 0 \/ i \div LimbBits + 1 > Len(a) THEN 0
  ELSE (a[i \div LimbBits + 1] \div 2^(i % LimbBits)) % 2

BigLimb(a, j) == IF j >= 1 /\ j <= Len(a) THEN a[j] ELSE 0

\* a * n + carry, n and carry small
RECURSIVE BigMulSmall(_, _, _, _)
BigMulSmall(a, i, n, carry) ==
  IF i > Len(a) THEN BigFromNat(carry)
  ELSE <<(a[i] * n + carry) % Limb>>
       \o BigMulSmall(a, i + 1, n, (a[i] * n + carry) \div Limb)

\* long division of the limbs a[1..i] by n with incoming remainder rem
RECURSIVE BigDivSmall(_, _, _, _, _)
BigDivSmall(a, i, rem, n, acc) ==
  IF i = 0 THEN [q |-> BigTrim(acc), r |-> rem]
  ELSE BigDivSmall(a, i - 1, (rem * Limb + a[i]) % n, n,
                   <<(rem * Limb + a[i]) \div n>> \o acc)

RECURSIVE BigInc(_, _)
BigInc(a, i) ==
  IF i > Len(a) THEN Append(a, 1)
  ELSE IF a[i] + 1 < Limb THEN [a EXCEPT ![i] = a[i] + 1]
  ELSE BigInc([a EXCEPT ![i] = 0], i + 1)

\* a shifted right by sh bits (sh >= 0), the dropped bits discarded
BigShiftRight(a, sh) ==
  LET q == sh \div LimbBits
      r == sh % LimbBits
  IN  BigTrim([j \in 1..Len(a) |->
        (BigLimb(a, j + q) \div 2^r)
        + (BigLimb(a, j + q + 1) % 2^r) * 2^(LimbBits - r)])

\* a shifted left by sh bits (sh >= 0)
BigShiftLeft(a, sh) ==
  [j \in 1..(sh \div LimbBits) |-> 0] \o BigMulSmall(a, 1, 2^(sh % LimbBits), 0)

DblZero == [sign |-> 1, m |-> <<>>, e |-> 0]

\* round-to-nearest-even of sign * a * 2^e (plus a sticky remainder below
\* the last bit of a) to a 53-bit significand
DblRound(sign, a, e, sticky) ==
  LET L  == BigBitLen(a)
      sh == L - MantissaBits
  IN  IF L = 0 THEN DblZero
      ELSE IF sh <= 0
      THEN [sign |-> sign, m |-> BigShiftLeft(a, -sh), e |-> e + sh]
      ELSE LET high  == BigShiftRight(a, sh)
               below == sticky \/ (\E i \in 0..(sh - 2) : BigBit(a, i) = 1)
               up    == BigBit(a, sh - 1) = 1 /\ (below \/ high[1] % 2 = 1)
               inc   == BigInc(high, 1)
           IN  IF ~up THEN [sign |-> sign, m |-> high, e |-> e + sh]
               ELSE IF BigBitLen(inc) = MantissaBits
               THEN [sign |-> sign, m |-> inc, e |-> e + sh]
               ELSE [sign |-> sign, m |-> BigShiftRight(inc, 1), e |-> e + sh + 1]

\* the double holding the integer n
DblFromInt(n) == DblRound(Sgn(n), BigFromNat(Abs(n)), 0, FALSE)

\* x * n in binary64, n an integer-valued double
DblMulInt(x, n) ==
  IF x.m = <<>> \/ n = 0 THEN DblZero
  ELSE DblRound(x.sign * Sgn(n), BigMulSmall(x.m, 1, Abs(n), 0), x.e, FALSE)

\* x / n in binary64, n a non-zero integer-valued double
DblDivInt(x, n) ==
  IF x.m = <<>> THEN DblZero
  ELSE LET num == <<0, 0>> \o x.m
           d   == BigDivSmall(num, Len(num), 0, Abs(n), <<>>)
       IN  DblRound(x.sign * Sgn(n), d.q, x.e - 2 * LimbBits, d.r # 0)

\* --------------------------------------------------------------------------
\* State
\* --------------------------------------------------------------------------
PIDs == {"distance", "turn", "angle"}
Modes == {"none", "distance", "angle"}

VARIABLES
  \* ChassisControllerPID members
  mode, doneLooping, newMovement, dtorCalled, task, alive,
  \* the three IterativePosPIDController objects: flipDisable state and target
  pidDisabled, pidTarget,
  \* configuration: ChassisScales, GearsetRatioPair::ratio, normalTurns, and
  \* the magnitude the client requests in this run
  scales, gearRatio, normalTurns, request,
  \* the gearset handed to the constructor, the constructor's program
  \* counter, and the gearing and encoder units the model's motors are set to
  gearset, ctor, modelGearing, modelUnits,
  \* the number of commands the commanding client issues at most in this run
  budget,
  \* SkidSteerModel: sensor readings <<left, right>> and the last command
  \* each motor received <<left, right>>
  sensor, motor,
  \* loop(): program counter and locals
  lpc, encStartVals, encVals, pastMode, stepOut,
  \* waitUntilSettled(): program counter of the waiting client
  wpc,
  \* the commanding client: program counter, the pending call's argument
  cpc, cArg,
  \* destructor: program counter
  dpc,
  \* number of commands and of waits issued so far
  calls, waits,
  \* history of the current or latest waitUntilSettled call: the mode when it
  \* was called, the commands issued before completelySettled was set,
  \* whether no command was issued since the call, the case that set
  \* completelySettled, whether every PID of that case reported settled in
  \* the deciding poll, whether each did so by its own error, and whether
  \* model->stop() was issued; and whether its latest poll found a PID of
  \* the polled case not reporting settled
  wStart, wCmds, wQuiet, wVia, wBoth, wByErr, wStopped, wUnsettled,
  \* history of the commanding client: the latest call and its overload, the
  \* PIDs it reset, whether no write of the waiting client landed since it
  \* was issued, and how many stop() calls in a row were issued last; and
  \* of driveToPoint: the move threshold, the distance of the latest request
  \* (0 before the first) and the PID targets when it was made
  lastCall, cKind, cResets, cClean, stopsInRow, odom,
  \* the controller move-constructed from this one (the other members above
  \* are those of the controller the thread was started on): whether it was
  \* made, its flags, mode, task, model and PIDs, the context the thread was
  \* created with, and the model, PIDs and rate left in the moved-from object
  moved,
  \* history of the baseline: whether encStartVals predates the latest async
  \* call, and how many ticks computed an error against such a baseline
  \* after that call returned
  baseStale, staleTicks,
  \* history of the task: how many threads were created, how many were
  \* deleted, whether startThread() was called when a task existed
  loops, teardowns, restarted,
  \* an open-loop call on the model: its arguments (speeds and threshold as
  \* multiples of 1 / SpeedDen), the operation applied ("none" before it),
  \* and whether the motors' last command is a velocity or a voltage
  ix, iy, ithreshold, op, cmdKind,
  \* the members of a ChassisControllerBuilder and what its build() produced;
  \* the same for an AsyncPosControllerBuilder; and the arguments of the
  \* latest call of each with* method of the ChassisControllerBuilder
  builder, built, posBuilder, posBuilt, given

ctrlVars  == <<mode, doneLooping, newMovement, dtorCalled, task, alive>>
pidVars   == <<pidDisabled, pidTarget>>
builderVars == <<builder, built, posBuilder, posBuilt, given>>
confVars  == <<scales, gearRatio, normalTurns, request, budget, gearset,
               ctor, modelGearing, modelUnits, builderVars, moved>>
modelVars == <<sensor, motor>>
loopVars  == <<lpc, encStartVals, encVals, pastMode, stepOut>>
waitHist  == <<wStart, wCmds, wQuiet, wVia, wBoth, wByErr, wStopped,
               wUnsettled>>
cmdHist   == <<lastCall, cKind, cResets, cClean, stopsInRow, odom>>
baseHist  == <<baseStale, staleTicks>>
lifeHist  == <<loops, teardowns, restarted>>
driveVars == <<ix, iy, ithreshold, op, cmdKind>>
vars == <<ctrlVars, pidVars, confVars, modelVars, loopVars, wpc, cpc, cArg, dpc,
          calls, waits, waitHist, cmdHist, baseHist, lifeHist, driveVars>>

\* --------------------------------------------------------------------------
\* Program constants
\* --------------------------------------------------------------------------
\* ChassisControllerBuilder defaults handed to the model
maxVelocity == 600
maxVoltage == 12000
\* the scenario of the controller tests: scales {2, 2}, a 6 m / 6 deg request
ScenarioScale == 2
ScenarioTarget == 6

\* outputs a PID step can produce: none or full forward
PidOutputs == {0, 1}

\* --------------------------------------------------------------------------
\* SkidSteerModel.  A speed or threshold argument is the double n / SpeedDen,
\* held as its numerator n: clamping, sums, differences and comparisons of
\* such values are exact in binary64, the quotient of two of them is the
\* rounded quotient of their numerators, and a command is the product with
\* the limit, converted to int16_t.
\* --------------------------------------------------------------------------
SpeedDen == 32

Clamp(x, lo, hi) == IF x < lo THEN lo ELSE IF x > hi THEN hi ELSE x
Max(a, b) == IF a >= b THEN a ELSE b

\* the double n / SpeedDen
Speed(n) == DblDivInt(DblFromInt(n), SpeedDen)

\* static_cast<std::int16_t>(x) for |x| < 2^15: the fraction is discarded
ToInt16(x) ==
  IF x.m = <<>> THEN 0
  ELSE LET a == BigShiftRight(x.m, -x.e)
       IN  x.sign * (BigLimb(a, 1) + BigLimb(a, 2) * Limb)

\* a clamp that lets every value through
NoClamp(x) == x

\* std::clamp(x, -1.0, 1.0)
ClampUnit(x) == Clamp(x, -SpeedDen, SpeedDen)

\* static_cast<int16_t>(speed * limit)
Command(speed, limit) == ToInt16(DblMulInt(Speed(speed), limit))

\* SkidSteerModel::forward: the velocities sent to <<left, right>>
forward(ispeed) ==
  LET speed == ClampUnit(ispeed)
  IN  <<Command(speed, maxVelocity), Command(speed, maxVelocity)>>

\* a normalisation that divides by the left magnitude whichever is larger
driveVectorOutputsByLeft(iforwardSpeed, iyaw) ==
  LET forwardSpeed == ClampUnit(iforwardSpeed)
      yaw          == ClampUnit(iyaw)
      leftOutput   == forwardSpeed + yaw
      rightOutput  == forwardSpeed - yaw
      maxInputMag  == Max(Abs(leftOutput), Abs(rightOutput))
  IN  IF maxInputMag > SpeedDen /\ leftOutput # 0
      THEN <<DblDivInt(DblFromInt(leftOutput), Abs(leftOutput)),
             DblDivInt(DblFromInt(rightOutput), Abs(leftOutput))>>
      ELSE <<Speed(leftOutput), Speed(rightOutput)>>

\* lines 44-54 and 62-72: leftOutput and rightOutput of driveVector and
\* driveVectorVoltage, as doubles
driveVectorOutputs(iforwardSpeed, iyaw) ==
  LET forwardSpeed == ClampUnit(iforwardSpeed)
      yaw          == ClampUnit(iyaw)
      leftOutput   == forwardSpeed + yaw
      rightOutput  == forwardSpeed - yaw
      maxInputMag  == Max(Abs(leftOutput), Abs(rightOutput))
  IN  IF maxInputMag > SpeedDen
      THEN <<DblDivInt(DblFromInt(leftOutput), maxInputMag),
             DblDivInt(DblFromInt(rightOutput), maxInputMag)>>
      ELSE <<Speed(leftOutput), Speed(rightOutput)>>

\* SkidSteerModel::driveVector: the velocities sent to <<left, right>>
driveVector(iforwardSpeed, iyaw) ==
  LET out == driveVectorOutputs(iforwardSpeed, iyaw)
  IN  <<ToInt16(DblMulInt(out[1], maxVelocity)),
        ToInt16(DblMulInt(out[2], maxVelocity))>>

\* SkidSteerModel::driveVectorVoltage: the voltages sent to <<left, right>>
driveVectorVoltage(iforwardSpeed, iyaw) ==
  LET out == driveVectorOutputs(iforwardSpeed, iyaw)
  IN  <<ToInt16(DblMulInt(out[1], maxVoltage)),
        ToInt16(DblMulInt(out[2], maxVoltage))>>

\* SkidSteerModel::rotate
rotate(ispeed) ==
  LET speed == ClampUnit(ispeed)
  IN  <<Command(speed, maxVelocity), Command(-1 * speed, maxVelocity)>>

\* a deadband that also zeroes a value equal to the threshold
tankNonStrict(ileftSpeed, irightSpeed, ithresh) ==
  LET leftSpeed  == ClampUnit(ileftSpeed)
      rightSpeed == ClampUnit(irightSpeed)
  IN  <<Command(IF Abs(leftSpeed) <= ithresh THEN 0 ELSE leftSpeed,
                maxVoltage),
        Command(IF Abs(rightSpeed) <= ithresh THEN 0 ELSE rightSpeed,
                maxVoltage)>>

\* SkidSteerModel::tank: the voltages sent to <<left, right>>
tank(ileftSpeed, irightSpeed, ithresh) ==
  LET leftSpeed  == ClampUnit(ileftSpeed)
      rightSpeed == ClampUnit(irightSpeed)
  IN  <<Command(IF Abs(leftSpeed) < ithresh THEN 0 ELSE leftSpeed,
                maxVoltage),
        Command(IF Abs(rightSpeed) < ithresh THEN 0 ELSE rightSpeed,
                maxVoltage)>>

\* a mixing that applies the rule of the first quadrant to all four
arcadeMixOneQuadrant(forwardSpeed, yaw) ==
  LET maxInput == Sgn(forwardSpeed) * Max(Abs(forwardSpeed), Abs(yaw))
  IN  <<maxInput, forwardSpeed - yaw>>

\* lines 124-141: the mixing of arcade on the deadbanded inputs
arcadeMix(forwardSpeed, yaw) ==
  LET maxInput == Sgn(forwardSpeed) * Max(Abs(forwardSpeed), Abs(yaw))
  IN  IF forwardSpeed >= 0
      THEN IF yaw >= 0 THEN <<maxInput, forwardSpeed - yaw>>
           ELSE <<forwardSpeed + yaw, maxInput>>
      ELSE IF yaw >= 0 THEN <<forwardSpeed + yaw, maxInput>>
           ELSE <<maxInput, forwardSpeed - yaw>>

\* an arcade whose deadband lets a value equal to the threshold through
arcadeStrict(iforwardSpeed, iyaw, ithresh) ==
  LET forwardSpeed == ClampUnit(iforwardSpeed)
      yaw          == ClampUnit(iyaw)
      out == arcadeMix(IF Abs(forwardSpeed) < ithresh THEN 0 ELSE forwardSpeed,
                       IF Abs(yaw) < ithresh THEN 0 ELSE yaw)
  IN  <<Command(ClampUnit(out[1]), maxVoltage),
        Command(ClampUnit(out[2]), maxVoltage)>>

\* SkidSteerModel::arcade: the voltages sent to <<left, right>>
arcade(iforwardSpeed, iyaw, ithresh) ==
  LET forwardSpeed == ClampUnit(iforwardSpeed)
      yaw          == ClampUnit(iyaw)
      out == arcadeMix(IF Abs(forwardSpeed) <= ithresh THEN 0 ELSE forwardSpeed,
                       IF Abs(yaw) <= ithresh THEN 0 ELSE yaw)
  IN  <<Command(ClampUnit(out[1]), maxVoltage),
        Command(ClampUnit(out[2]), maxVoltage)>>

\* SkidSteerModel::left and SkidSteerModel::right: the velocity sent to the
\* one motor
left(ispeed) == Command(ClampUnit(ispeed), maxVelocity)
right(ispeed) == Command(ClampUnit(ispeed), maxVelocity)

\* SkidSteerModel::stop
modelStop == <<0, 0>>

\* SkidSteerModel::getSensorVals
getSensorVals == sensor

\* std::int32_t, the element type of getSensorVals() and of encVals
MaxInt32 == 2147483647
MinInt32 == -MaxInt32 - 1

\* a - b and a + b leave the range of std::int32_t
SubOverflows(a, b) ==
  IF b > 0 THEN a < MinInt32 + b ELSE IF b < 0 THEN a > MaxInt32 + b ELSE FALSE
AddOverflows(a, b) ==
  IF b > 0 THEN a > MaxInt32 - b ELSE IF b < 0 THEN a < MinInt32 - b ELSE FALSE

\* a - b and a + b in std::int32_t on a build where overflow wraps: the
\* result modulo 2^32
Sub32(a, b) ==
  IF ~SubOverflows(a, b) THEN a - b
  ELSE IF b > 0 THEN (a - MinInt32) + (MaxInt32 - b) + 1
  ELSE (a - MaxInt32) + (MinInt32 - b) - 1
Add32(a, b) ==
  IF ~AddOverflows(a, b) THEN a + b
  ELSE IF b > 0 THEN (a - MaxInt32) + (b + MinInt32) - 1
  ELSE (a - MinInt32) + (b - MinInt32)

\* the commands of lines 317 and 323 for each output a PID step can produce
LoopDriveVector ==
  [d \in PidOutputs, a \in PidOutputs |->
     driveVector(d * SpeedDen, a * SpeedDen)]
LoopRotateBy == [t \in PidOutputs |-> rotate(t * SpeedDen)]

\* --------------------------------------------------------------------------
\* IterativePosPIDController (the PID step primitive)
\* --------------------------------------------------------------------------
\* an isSettled() that reports the verdict alone
isSettledByError(p, e) == e

\* isSettled(): a disabled controller reports settled; an enabled one reports
\* the verdict e of its settle check on the error
isSettled(p, e) == pidDisabled[p] \/ e
\* the settle verdicts the environment can produce for p
ErrVerdicts(p) == IF pidDisabled[p] THEN {FALSE} ELSE BOOLEAN
\* step(): a disabled controller outputs 0
StepOutputs(p) == IF pidDisabled[p] THEN {0} ELSE PidOutputs

\* --------------------------------------------------------------------------
\* Initial states: the controller as constructed, no thread started
\* --------------------------------------------------------------------------
\* no step output pending; a pending output o of a step on the reading r is
\* held as <<o, r>>
NoOut == [distance |-> <<>>, angle |-> <<>>, turn |-> <<>>]

\* no controller was move-constructed from this one
NotMoved ==
  [made |-> FALSE, mode |-> "none", doneLooping |-> TRUE,
   newMovement |-> FALSE, dtorCalled |-> FALSE, task |-> "null",
   model |-> "null", pids |-> "null", context |-> "none",
   otherModel |-> "held", otherPids |-> "held", otherRate |-> "held"]

\* no object: a null shared_ptr, a default-constructed Gains
Null == [kind |-> "null", id |-> 0]
NoGains == 0
\* no derivative filter handed to the builder
NoFilter == 0

\* toUnderlyingType(gearset): the velocity of the cartridge
GearsetVelocity == [red |-> 100, green |-> 200, blue |-> 600]

\* a ChassisControllerBuilder as its member initialisers leave it,
\* chassisControllerBuilder.hpp lines 206-226
NewChassisControllerBuilder ==
  [hasMotors |-> FALSE, isSkidSteer |-> TRUE,
   skidSteerMotors |-> Null, xDriveMotors |-> Null,
   sensorsSetByUser |-> FALSE, sensors |-> Null,
   hasGains |-> FALSE,
   distanceGains |-> NoGains, angleGains |-> NoGains, turnGains |-> NoGains,
   distanceFilter |-> NoFilter, turnFilter |-> NoFilter,
   angleFilter |-> NoFilter,
   gearset |-> "red", scales |-> [straight |-> 1, turn |-> 1],
   maxVelSetByUser |-> FALSE, maxVelocity |-> maxVelocity,
   maxVoltage |-> maxVoltage]

\* an AsyncPosControllerBuilder before any call
NewAsyncPosControllerBuilder ==
  [hasMotors |-> FALSE, motor |-> Null,
   sensorsSetByUser |-> FALSE, sensor |-> Null,
   hasGains |-> FALSE, gains |-> NoGains,
   gearsetSetByUser |-> FALSE, pair |-> "red",
   maxVelSetByUser |-> FALSE, maxVelocity |-> maxVelocity]

\* nothing built, no with* call made
NothingBuilt == [kind |-> "none"]
NothingGiven ==
  [calls |-> 0, last |-> "none", motors |-> Null, sensors |-> Null,
   gains |-> <<>>, gearset |-> "none", maxVelocity |-> 0, posMotor |-> Null,
   filters |-> <<>>]

NewBuilders ==
  /\ builder = NewChassisControllerBuilder
  /\ built = NothingBuilt
  /\ posBuilder = NewAsyncPosControllerBuilder
  /\ posBuilt = NothingBuilt
  /\ given = NothingGiven

\* the members as their initialisers leave them (header defaults and the
\* member-initialiser list, lines 254-261), and the clients at rest
InitObjects ==
  /\ NewBuilders
  /\ moved = NotMoved
  /\ mode = "none" /\ doneLooping = TRUE /\ newMovement = FALSE
  /\ dtorCalled = FALSE /\ task = "null"
  /\ loops = 0 /\ teardowns = 0 /\ restarted = FALSE
  /\ pidDisabled = [p \in PIDs |-> FALSE]
  /\ pidTarget = [p \in PIDs |-> DblZero]
  /\ sensor = <<0, 0>>
  /\ lpc = "idle" /\ encStartVals = <<0, 0>> /\ encVals = <<0, 0>>
  /\ pastMode = "none" /\ stepOut = NoOut
  /\ wpc = "idle" /\ cpc = "idle" /\ cArg = DblZero /\ dpc = "idle"
  /\ calls = 0 /\ waits = 0
  /\ wStart = "none" /\ wCmds = "none" /\ wQuiet = FALSE /\ wVia = "pending"
  /\ wBoth = FALSE /\ wByErr = FALSE /\ wStopped = FALSE
  /\ wUnsettled = FALSE
  /\ lastCall = "none" /\ cKind = "none" /\ cResets = {} /\ cClean = TRUE
  /\ stopsInRow = 0
  /\ baseStale = FALSE /\ staleTicks = 0

\* no driveToPoint request yet, under the move threshold t
NoRequest(t) ==
  [moveThreshold |-> t, d |-> 0, prior |-> [p \in PIDs |-> DblZero]]

\* the members, and no move threshold set
InitMembers == InitObjects /\ odom = NoRequest(0)

\* the controller as the builder's default gearset constructs it: lines 269
\* and 270 have set the model's gearing and encoder units
InitController ==
  /\ InitMembers
  /\ alive = TRUE /\ ctor = "done"
  /\ gearset = "red" /\ modelGearing = "red" /\ modelUnits = "degrees"
  /\ motor = <<0, 0>>

\* no open-loop call on the model: the controller commands velocities
NoDrive ==
  ix = 0 /\ iy = 0 /\ ithreshold = 0 /\ op = "none" /\ cmdKind = "velocity"

\* the test scenario: scales {2, 2}, gear ratio 1, normal turns, 6 m / 6 deg
InitScenario ==
  /\ InitController
  /\ NoDrive
  /\ scales = [straight |-> ScenarioScale, turn |-> ScenarioScale]
  /\ gearRatio = 1
  /\ normalTurns = TRUE
  /\ request = ScenarioTarget

Init == InitScenario /\ budget = MaxCalls

\* the scenario with one movement to settle
InitSettle == InitScenario /\ budget = MaxSettleCalls

\* the scenario with a movement and stop() calls after it
InitStop == InitScenario /\ budget = MaxStopCalls

\* --------------------------------------------------------------------------
\* Open-loop calls on the SkidSteerModel, lines 37-157
\* --------------------------------------------------------------------------
Speeds == -MaxSpeed..MaxSpeed
\* thresholds: none, a quarter and the full unit
Thresholds == {0, SpeedDen \div 4, SpeedDen}

\* the arguments of one call on the model of a constructed controller
InitDrive ==
  /\ InitController
  /\ scales = [straight |-> ScenarioScale, turn |-> ScenarioScale]
  /\ gearRatio = 1
  /\ normalTurns = TRUE
  /\ request = ScenarioTarget
  /\ budget = 0
  /\ ix \in Speeds /\ iy \in Speeds /\ ithreshold \in Thresholds
  /\ op = "none" /\ cmdKind = "velocity"

DriveFrame == UNCHANGED <<ctrlVars, pidVars, confVars, sensor, loopVars, wpc,
                          cpc, cArg, dpc, calls, waits, waitHist, cmdHist,
                          baseHist, lifeHist, ix, iy, ithreshold>>

\* one call of a model operation that commands both motors
Apply(name, kind, command) ==
  /\ op = "none"
  /\ motor' = command
  /\ op' = name
  /\ cmdKind' = kind
  /\ DriveFrame

ApplyForward == Apply("forward", "velocity", forward(ix))
ApplyDriveVector == Apply("driveVector", "velocity", driveVector(ix, iy))
ApplyDriveVectorVoltage ==
  Apply("driveVectorVoltage", "voltage", driveVectorVoltage(ix, iy))
ApplyRotate == Apply("rotate", "velocity", rotate(ix))
ApplyStop == Apply("stop", "velocity", modelStop)
ApplyTank == Apply("tank", "voltage", tank(ix, iy, ithreshold))
ApplyArcade == Apply("arcade", "voltage", arcade(ix, iy, ithreshold))
\* lines 151-157: the other motor keeps its command
ApplyLeft == Apply("left", "velocity", <<left(ix), motor[2]>>)
ApplyRight == Apply("right", "velocity", <<motor[1], right(ix)>>)

NextDrive ==
  \/ ApplyForward \/ ApplyDriveVector \/ ApplyDriveVectorVoltage
  \/ ApplyRotate \/ ApplyStop \/ ApplyTank \/ ApplyArcade
  \/ ApplyLeft \/ ApplyRight

SpecDrive == InitDrive /\ [][NextDrive]_vars

\* --------------------------------------------------------------------------
\* ChassisControllerPID::ChassisControllerPID, lines 245-271
\* --------------------------------------------------------------------------
Gearsets == {"red", "green", "blue"}
\* the model before the controller is built: its motors' gearing and encoder
\* units, and the open-loop command they are running
PriorGearing == "green"
PriorUnits == "counts"
PriorCommand == <<maxVelocity, maxVelocity>>

\* the arguments of a construction and the model it is handed
InitBuild ==
  /\ InitMembers
  /\ NoDrive
  /\ alive = FALSE /\ ctor = "none"
  /\ scales = [straight |-> ScenarioScale, turn |-> ScenarioScale]
  /\ gearRatio \in -MaxRatio..MaxRatio
  /\ gearset \in Gearsets
  /\ normalTurns = TRUE
  /\ request = ScenarioTarget
  /\ budget = MaxSettleCalls
  /\ modelGearing = PriorGearing /\ modelUnits = PriorUnits
  /\ motor = PriorCommand

CtorFrame == UNCHANGED <<mode, doneLooping, newMovement, dtorCalled, task,
                         lifeHist, driveVars, builderVars, moved,
                         pidVars, scales, gearRatio, normalTurns, request,
                         budget, gearset, modelVars, loopVars, wpc, cpc, cArg,
                         dpc, calls, waits, waitHist, cmdHist, baseHist>>

\* lines 253-261: the base class is handed the model and the gearset's
\* velocity, the members are initialised
CtorBase ==
  /\ ctor = "none"
  /\ ctor' = "check"
  /\ UNCHANGED <<alive, modelGearing, modelUnits>>
  /\ CtorFrame

\* a constructor that accepts every ratio
CtorNoCheck ==
  /\ ctor = "check"
  /\ ctor' = "gearing"
  /\ UNCHANGED <<alive, modelGearing, modelUnits>>
  /\ CtorFrame

\* lines 262-267: if (igearset.ratio == 0) throw std::invalid_argument
CtorCheck ==
  /\ ctor = "check"
  /\ ctor' = IF gearRatio = 0 THEN "thrown" ELSE "gearing"
  /\ UNCHANGED <<alive, modelGearing, modelUnits>>
  /\ CtorFrame

\* line 269: setGearing(igearset.internalGearset), into lines 179-182
CtorSetGearing ==
  /\ ctor = "gearing"
  /\ modelGearing' = gearset
  /\ ctor' = "units"
  /\ UNCHANGED <<alive, modelUnits>>
  /\ CtorFrame

\* line 270: setEncoderUnits(degrees), into lines 174-177; the constructor
\* returns and the object exists
CtorSetEncoderUnits ==
  /\ ctor = "units"
  /\ modelUnits' = "degrees"
  /\ ctor' = "done"
  /\ alive' = TRUE
  /\ UNCHANGED modelGearing
  /\ CtorFrame

Ctor == CtorBase \/ CtorCheck \/ CtorSetGearing \/ CtorSetEncoderUnits

\* --------------------------------------------------------------------------
\* ChassisControllerBuilder, chassisControllerBuilder.cpp
\* --------------------------------------------------------------------------
\* the objects a client can pass: two sets of skid-steer motors, two sets of
\* x-drive motors, two pairs of sensors, three gains, two velocities, one
\* voltage, one pair of scales
SkidMotors == {[kind |-> "skid", id |-> 1], [kind |-> "skid", id |-> 2]}
XDriveMotors == {[kind |-> "xdrive", id |-> 3], [kind |-> "xdrive", id |-> 4]}
UserSensors == {[kind |-> "user", id |-> 1], [kind |-> "user", id |-> 2]}
Gains == {1, 2, 3}
\* the filters of one withDerivativeFilters call, in the order of its
\* parameters
UserFilters == {<<1, 2, 3>>, <<3, 1, 2>>}
UserVelocities == {50, 150}
UserVoltages == {6000}
UserScales == {[straight |-> ScenarioScale, turn |-> ScenarioScale]}

\* ileft->getEncoder() and iright->getEncoder(): the integrated encoders of
\* the motors m
getEncoder(m) == [kind |-> "integrated", id |-> m.id]

\* a withMotors that takes the motors' encoders at every call
withMotorsOverwriting(b, m) ==
  [b EXCEPT !.hasMotors = TRUE,
            !.isSkidSteer = (m.kind = "skid"),
            !.skidSteerMotors = IF m.kind = "skid" THEN m ELSE @,
            !.xDriveMotors = IF m.kind = "xdrive" THEN m ELSE @,
            !.sensors = getEncoder(m)]

\* withMotors, lines 26-39 (skid-steer) and 61-76 (x-drive)
withMotors(b, m) ==
  [b EXCEPT !.hasMotors = TRUE,
            !.isSkidSteer = (m.kind = "skid"),
            !.skidSteerMotors = IF m.kind = "skid" THEN m ELSE @,
            !.xDriveMotors = IF m.kind = "xdrive" THEN m ELSE @,
            !.sensors = IF b.sensorsSetByUser THEN @ ELSE getEncoder(m)]

\* withSensors, lines 89-96
withSensors(b, s) == [b EXCEPT !.sensorsSetByUser = TRUE, !.sensors = s]

\* a withGains whose definition names its parameters as the header does
withGainsAsDeclared(b, idistanceGains, iangleGains, iturnGains) ==
  [b EXCEPT !.hasGains = TRUE,
            !.distanceGains = idistanceGains,
            !.angleGains = iangleGains,
            !.turnGains = iturnGains]

\* withGains with three arguments, lines 104-113
withGains(b, idistanceGains, iturnGains, iangleGains) ==
  [b EXCEPT !.hasGains = TRUE,
            !.distanceGains = idistanceGains,
            !.turnGains = iturnGains,
            !.angleGains = iangleGains]

\* withGains with two arguments, lines 98-102
withGainsTwo(b, idistanceGains, iturnGains) ==
  withGains(b, idistanceGains, iturnGains, iturnGains)

\* withDerivativeFilters, lines 115-123
withDerivativeFilters(b, idistanceFilter, iturnFilter, iangleFilter) ==
  [b EXCEPT !.distanceFilter = idistanceFilter,
            !.turnFilter = iturnFilter,
            !.angleFilter = iangleFilter]

\* withGearset, lines 131-140
withGearset(b, igearset) ==
  [b EXCEPT !.gearset = igearset,
            !.maxVelocity = IF b.maxVelSetByUser THEN @
                            ELSE GearsetVelocity[igearset]]

\* withDimensions, lines 142-145
withDimensions(b, iscales) == [b EXCEPT !.scales = iscales]

\* withMaxVelocity, lines 147-151
withMaxVelocity(b, imaxVelocity) ==
  [b EXCEPT !.maxVelSetByUser = TRUE, !.maxVelocity = imaxVelocity]

\* withMaxVoltage, lines 153-156
withMaxVoltage(b, imaxVoltage) == [b EXCEPT !.maxVoltage = imaxVoltage]

\* makeSkidSteerModel and makeXDriveModel, lines 247-261
makeModel(b) ==
  [kind |-> IF b.isSkidSteer THEN "SkidSteerModel" ELSE "XDriveModel",
   motors |-> IF b.isSkidSteer THEN b.skidSteerMotors ELSE b.xDriveMotors,
   sensors |-> b.sensors,
   maxVelocity |-> b.maxVelocity,
   maxVoltage |-> b.maxVoltage]

\* the member-initialiser list of ChassisControllerPID, part_000 lines
\* 248-250 and 256-258: the gains each PID member carries
ChassisControllerPIDMembers(idistanceController, iturnController, iangleController) ==
  [distancePid |-> idistanceController,
   turnPid |-> iturnController,
   anglePid |-> iangleController]

\* the frame of a call on a builder: no controller variable changes
BuilderFrame == UNCHANGED <<ctrlVars, pidVars, scales, gearRatio, normalTurns,
                            request, budget, gearset, ctor, modelGearing,
                            modelUnits, modelVars, loopVars, wpc, cpc, cArg,
                            dpc, calls, waits, waitHist, cmdHist, baseHist,
                            lifeHist, driveVars, moved>>

\* one with* call on the ChassisControllerBuilder
With(name, b, g) ==
  /\ built.kind = "none"
  /\ given.calls < MaxBuilderCalls
  /\ builder' = b
  /\ given' = [g EXCEPT !.calls = @ + 1, !.last = name]
  /\ UNCHANGED <<built, posBuilder, posBuilt>>
  /\ BuilderFrame

WithMotors ==
  \E m \in SkidMotors \cup XDriveMotors :
    With("withMotors", withMotors(builder, m), [given EXCEPT !.motors = m])
WithSensors ==
  \E s \in UserSensors :
    With("withSensors", withSensors(builder, s), [given EXCEPT !.sensors = s])
WithGains ==
  \E d \in Gains, a \in Gains, t \in Gains :
    With("withGains", withGains(builder, d, a, t), [given EXCEPT !.gains = <<d, a, t>>])
WithGainsTwo ==
  \E d \in Gains, a \in Gains :
    With("withGainsTwo", withGainsTwo(builder, d, a), [given EXCEPT !.gains = <<d, a>>])
WithDerivativeFilters ==
  \E f \in UserFilters :
    With("withDerivativeFilters", withDerivativeFilters(builder, f[1], f[2], f[3]), [given EXCEPT !.filters = f])
WithGearset ==
  \E g \in Gearsets :
    With("withGearset", withGearset(builder, g), [given EXCEPT !.gearset = g])
WithDimensions ==
  \E sc \in UserScales : With("withDimensions", withDimensions(builder, sc), given)
WithMaxVelocity ==
  \E v \in UserVelocities :
    With("withMaxVelocity", withMaxVelocity(builder, v), [given EXCEPT !.maxVelocity = v])
WithMaxVoltage ==
  \E v \in UserVoltages : With("withMaxVoltage", withMaxVoltage(builder, v), given)

\* a build() that goes on without motors
BuildNoMotorsUnchecked ==
  /\ built.kind = "none"
  /\ ~builder.hasMotors
  /\ built' = [kind |-> "ChassisControllerIntegrated",
               model |-> makeModel(builder),
               controllers |-> builder.skidSteerMotors]
  /\ UNCHANGED <<builder, posBuilder, posBuilt, given>>
  /\ BuilderFrame

\* build(), lines 165-168: throw std::runtime_error
BuildNoMotors ==
  /\ built.kind = "none"
  /\ ~builder.hasMotors
  /\ built' = [kind |-> "thrown"]
  /\ UNCHANGED <<builder, posBuilder, posBuilt, given>>
  /\ BuilderFrame

\* a buildCCPID that does not start the thread
BuildCCPIDNoThread ==
  /\ built.kind = "none"
  /\ builder.hasMotors /\ builder.hasGains
  /\ ctor = "none" /\ gearRatio # 0
  /\ built' = [kind |-> "ChassisControllerPID",
               model |-> makeModel(builder),
               pids |-> ChassisControllerPIDMembers(builder.distanceGains,
                                                    builder.angleGains,
                                                    builder.turnGains),
               filters |->
                 ChassisControllerPIDMembers(builder.distanceFilter,
                                             builder.angleFilter,
                                             builder.turnFilter)]
  /\ gearset' = builder.gearset
  /\ scales' = builder.scales
  /\ ctor' = "done"
  /\ alive' = TRUE
  /\ modelGearing' = builder.gearset
  /\ modelUnits' = "degrees"
  /\ UNCHANGED <<task, loopVars, lifeHist>>
  /\ UNCHANGED <<builder, posBuilder, posBuilt, given>>
  /\ UNCHANGED <<mode, doneLooping, newMovement, dtorCalled, pidVars,
                 gearRatio, normalTurns, request, budget, modelVars, wpc, cpc,
                 cArg, dpc, calls, waits, waitHist, cmdHist, baseHist,
                 driveVars, moved>>

\* build() with gains, lines 170-171, into buildCCPID, lines 177-209: the
\* ChassisControllerPID is constructed (part_000 lines 245-271, the ratio
\* of a gearset being 1) and startThread() is called (part_000 lines
\* 506-510)
BuildCCPID ==
  /\ built.kind = "none"
  /\ builder.hasMotors /\ builder.hasGains
  /\ ctor = "none" /\ gearRatio # 0
  /\ built' = [kind |-> "ChassisControllerPID",
               model |-> makeModel(builder),
               pids |-> ChassisControllerPIDMembers(builder.distanceGains,
                                                    builder.angleGains,
                                                    builder.turnGains),
               filters |->
                 ChassisControllerPIDMembers(builder.distanceFilter,
                                             builder.angleFilter,
                                             builder.turnFilter)]
  /\ gearset' = builder.gearset
  /\ scales' = builder.scales
  /\ ctor' = "done"
  /\ alive' = TRUE
  /\ modelGearing' = builder.gearset
  /\ modelUnits' = "degrees"
  /\ task' = "running"
  /\ lpc' = "while"
  /\ encStartVals' = getSensorVals
  /\ pastMode' = "none"
  /\ loops' = loops + 1
  /\ UNCHANGED <<encVals, stepOut, teardowns, restarted>>
  /\ UNCHANGED <<builder, posBuilder, posBuilt, given>>
  /\ UNCHANGED <<mode, doneLooping, newMovement, dtorCalled, pidVars,
                 gearRatio, normalTurns, request, budget, modelVars, wpc, cpc,
                 cArg, dpc, calls, waits, waitHist, cmdHist, baseHist,
                 driveVars, moved>>

\* build() without gains, lines 172-173, into buildCCI, lines 211-245: no
\* ChassisControllerPID and no thread; in both branches the two
\* AsyncPosIntegratedControllers are made from skidSteerMotors.left and
\* skidSteerMotors.right (lines 216, 220, 232 and 236)
BuildCCI ==
  /\ built.kind = "none"
  /\ builder.hasMotors /\ ~builder.hasGains
  /\ built' = [kind |-> "ChassisControllerIntegrated",
               model |-> makeModel(builder),
               controllers |-> builder.skidSteerMotors]
  /\ UNCHANGED <<builder, posBuilder, posBuilt, given>>
  /\ BuilderFrame

Build == BuildNoMotors \/ BuildCCPID \/ BuildCCI

\* --------------------------------------------------------------------------
\* AsyncPosControllerBuilder, asyncPosControllerBuilder.cpp lines 13-123
\* --------------------------------------------------------------------------
\* the motors a client can pass, with the gearing they are set to
PosMotors == {[kind |-> "motor", id |-> 1, gearing |-> "green"],
              [kind |-> "motor", id |-> 2, gearing |-> "blue"]}

\* one call on the AsyncPosControllerBuilder
PosWith(b, g) ==
  /\ posBuilt.kind = "none"
  /\ given.calls < MaxBuilderCalls
  /\ posBuilder' = b
  /\ given' = [g EXCEPT !.calls = @ + 1]
  /\ UNCHANGED <<builder, built, posBuilt>>
  /\ BuilderFrame

\* withMotor, lines 24-43
PosWithMotor ==
  \E m \in PosMotors :
    PosWith([posBuilder EXCEPT
               !.hasMotors = TRUE,
               !.motor = m,
               !.sensor = IF posBuilder.sensorsSetByUser THEN @
                          ELSE getEncoder(m),
               !.maxVelocity = IF posBuilder.maxVelSetByUser THEN @
                               ELSE GearsetVelocity[m.gearing],
               !.pair = IF posBuilder.gearsetSetByUser THEN @
                        ELSE m.gearing],
            [given EXCEPT !.posMotor = m])
\* withSensor, lines 53-58
PosWithSensor ==
  \E s \in UserSensors :
    PosWith([posBuilder EXCEPT !.sensorsSetByUser = TRUE, !.sensor = s],
            given)
\* withGains, lines 60-65
PosWithGains ==
  \E g \in {1} :
    PosWith([posBuilder EXCEPT !.hasGains = TRUE, !.gains = g], given)
\* withGearset, lines 73-78
PosWithGearset ==
  \E g \in {"red"} :
    PosWith([posBuilder EXCEPT !.gearsetSetByUser = TRUE, !.pair = g],
            given)
\* withMaxVelocity, lines 80-84
PosWithMaxVelocity ==
  \E v \in {50} :
    PosWith([posBuilder EXCEPT !.maxVelSetByUser = TRUE, !.maxVelocity = v],
            given)

PosBuilt(b) ==
  /\ posBuilt.kind = "none"
  /\ posBuilt' = b
  /\ UNCHANGED <<builder, built, posBuilder, given>>
  /\ BuilderFrame

\* build(), lines 93-96: throw std::runtime_error
PosBuildNoMotors ==
  /\ ~posBuilder.hasMotors
  /\ PosBuilt([kind |-> "thrown"])
\* build() with gains, lines 98-99, into buildAPPC, lines 110-123
PosBuildAPPC ==
  /\ posBuilder.hasMotors /\ posBuilder.hasGains
  /\ PosBuilt([kind |-> "AsyncPosPIDController",
               motor |-> [posBuilder.motor EXCEPT
                            !.gearing = posBuilder.pair],
               sensor |-> posBuilder.sensor,
               gains |-> posBuilder.gains,
               thread |-> TRUE])
\* build() without gains, lines 100-101, into buildAPIC, lines 105-108
PosBuildAPIC ==
  /\ posBuilder.hasMotors /\ ~posBuilder.hasGains
  /\ PosBuilt([kind |-> "AsyncPosIntegratedController",
               motor |-> posBuilder.motor,
               pair |-> posBuilder.pair,
               maxVelocity |-> posBuilder.maxVelocity,
               thread |-> FALSE])

PosBuild == PosBuildNoMotors \/ PosBuildAPPC \/ PosBuildAPIC

\* a builder of each kind, before any call, and no controller yet
InitBuilder ==
  /\ InitMembers
  /\ NoDrive
  /\ alive = FALSE /\ ctor = "none"
  /\ scales = NewChassisControllerBuilder.scales
  /\ gearRatio = 1
  /\ gearset = NewChassisControllerBuilder.gearset
  /\ normalTurns = TRUE
  /\ request = ScenarioTarget
  /\ budget = 0
  /\ modelGearing = PriorGearing /\ modelUnits = PriorUnits
  /\ motor = PriorCommand

NextBuilder ==
  \/ WithMotors \/ WithSensors \/ WithGains \/ WithGainsTwo \/ WithGearset
  \/ WithDerivativeFilters
  \/ WithDimensions \/ WithMaxVelocity \/ WithMaxVoltage
  \/ Build
  \/ PosWithMotor \/ PosWithSensor \/ PosWithGains \/ PosWithGearset
  \/ PosWithMaxVelocity
  \/ PosBuild

SpecBuilder == InitBuilder /\ [][NextBuilder]_vars

\* --------------------------------------------------------------------------
\* ChassisControllerPID::startThread and the destructor
\* --------------------------------------------------------------------------
LifeFrame == UNCHANGED <<mode, doneLooping, newMovement, pidVars, confVars,
                         driveVars,
                         modelVars, wpc, cpc, cArg, calls, waits, waitHist,
                         cmdHist, baseHist>>

\* a startThread() that creates a thread at every call
StartThreadAgain ==
  /\ alive /\ dpc = "idle" /\ loops < 2
  /\ task' = "running"
  /\ lpc' = "while"
  /\ encStartVals' = getSensorVals
  /\ pastMode' = "none"
  /\ loops' = loops + 1
  /\ restarted' = (task # "null")
  /\ UNCHANGED <<encVals, stepOut>>
  /\ UNCHANGED <<dtorCalled, alive, dpc, teardowns>>
  /\ LifeFrame

\* startThread(): creates the task once; loop() starts with its locals
StartThread ==
  /\ alive /\ dpc = "idle"
  /\ IF task = "null"
     THEN /\ task' = "running"
          /\ lpc' = "while"
          /\ encStartVals' = getSensorVals
          /\ pastMode' = "none"
          /\ loops' = loops + 1
          /\ UNCHANGED <<encVals, stepOut, restarted>>
     ELSE /\ restarted' = TRUE
          /\ UNCHANGED <<task, loopVars, loops>>
  /\ UNCHANGED <<dtorCalled, alive, dpc, teardowns>>
  /\ LifeFrame

\* ~ChassisControllerPID, line 291: dtorCalled.store(true).  The destructor
\* runs when no client call is in progress.
DtorFlag ==
  /\ alive /\ dpc = "idle" /\ wpc = "idle" /\ cpc = "idle"
  /\ dtorCalled' = TRUE
  /\ dpc' = "delete"
  /\ UNCHANGED <<task, alive, loopVars, lifeHist>>
  /\ LifeFrame

\* the thread object's destructor joins the thread: it returns once loop()
\* has returned (at once when no thread was started)
TaskJoined == task = "null" \/ lpc = "exited"

\* a destructor that deletes the task without waiting for loop() to return
DtorDeleteDetached ==
  /\ dpc = "delete"
  /\ task' = IF task = "null" THEN "null" ELSE "deleted"
  /\ teardowns' = IF task = "null" THEN teardowns ELSE teardowns + 1
  /\ dpc' = "members"
  /\ UNCHANGED <<dtorCalled, alive, loopVars, loops, restarted>>
  /\ LifeFrame

\* ~ChassisControllerPID, line 292: delete task
DtorDelete ==
  /\ dpc = "delete"
  /\ TaskJoined
  /\ task' = IF task = "null" THEN "null" ELSE "deleted"
  /\ teardowns' = IF task = "null" THEN teardowns ELSE teardowns + 1
  /\ dpc' = "members"
  /\ UNCHANGED <<dtorCalled, alive, loopVars, loops, restarted>>
  /\ LifeFrame

\* after the destructor body the members (PIDs, model reference, flags) are
\* destroyed
DtorMembers ==
  /\ dpc = "members"
  /\ alive' = FALSE
  /\ dpc' = "done"
  /\ UNCHANGED <<dtorCalled, task, loopVars, lifeHist>>
  /\ LifeFrame

\* --------------------------------------------------------------------------
\* ChassisControllerPID::loop, one action per access to shared state
\* --------------------------------------------------------------------------
LoopFrame == UNCHANGED <<mode, doneLooping, dtorCalled, task, alive, pidVars,
                         lifeHist, driveVars,
                         confVars, sensor, wpc, cpc, cArg, dpc, calls, waits,
                         waitHist, cmdHist>>

\* line 301: while (!dtorCalled.load() && !task->notifyTake(0)); nothing
\* notifies the task, so notifyTake returns 0
LoopWhile ==
  /\ lpc = "while"
  /\ lpc' = IF dtorCalled THEN "exited" ELSE "ifDone"
  /\ UNCHANGED <<encStartVals, encVals, pastMode, stepOut, newMovement, motor,
                 baseHist>>
  /\ LoopFrame

\* line 306: if (!doneLooping.load()); line 333 when the body is skipped
LoopIfDone ==
  /\ lpc = "ifDone"
  /\ lpc' = IF doneLooping THEN "while" ELSE "ifNew"
  /\ UNCHANGED <<encStartVals, encVals, pastMode, stepOut, newMovement, motor,
                 baseHist>>
  /\ LoopFrame

\* a condition that looks at the mode only
LoopIfNewModeOnly ==
  /\ lpc = "ifNew"
  /\ lpc' = IF mode # pastMode THEN "snap" ELSE "switch"
  /\ UNCHANGED <<encStartVals, encVals, pastMode, stepOut, newMovement, motor,
                 baseHist>>
  /\ LoopFrame

\* line 307: if (mode != pastMode || newMovement.load())
LoopIfNew ==
  /\ lpc = "ifNew"
  /\ lpc' = IF mode # pastMode \/ newMovement THEN "snap" ELSE "switch"
  /\ UNCHANGED <<encStartVals, encVals, pastMode, stepOut, newMovement, motor,
                 baseHist>>
  /\ LoopFrame

\* line 308: encStartVals = model->getSensorVals()
LoopSnap ==
  /\ lpc = "snap"
  /\ encStartVals' = getSensorVals
  /\ baseStale' = FALSE
  /\ lpc' = "clear"
  /\ UNCHANGED <<encVals, pastMode, stepOut, newMovement, motor, staleTicks>>
  /\ LoopFrame

\* line 309: newMovement.store(false)
LoopClear ==
  /\ lpc = "clear"
  /\ newMovement' = FALSE
  /\ lpc' = "switch"
  /\ UNCHANGED <<encStartVals, encVals, pastMode, stepOut, motor, baseHist>>
  /\ LoopFrame

\* line 312: switch (mode)
LoopSwitch ==
  /\ lpc = "switch"
  /\ lpc' = CASE mode = "distance" -> "readD"
              [] mode = "angle"    -> "readA"
              [] OTHER             -> "past"
  /\ UNCHANGED <<encStartVals, encVals, pastMode, stepOut, newMovement, motor,
                 baseHist>>
  /\ LoopFrame

\* a tick computes its error against encStartVals: it is counted when that
\* baseline predates the latest async call and the call has returned
CountStale ==
  staleTicks' = IF baseStale /\ cpc = "idle" /\ staleTicks < 2
                THEN staleTicks + 1 ELSE staleTicks

\* a read that takes the sensor values as they are
LoopReadAbsolute ==
  /\ lpc \in {"readD", "readA"}
  /\ encVals' = getSensorVals
  /\ CountStale
  /\ lpc' = IF lpc = "readD" THEN "stepD" ELSE "stepT"
  /\ UNCHANGED <<encStartVals, pastMode, stepOut, newMovement, motor, baseStale>>
  /\ LoopFrame

\* lines 314 and 321: encVals = model->getSensorVals() - encStartVals
LoopRead ==
  /\ lpc \in {"readD", "readA"}
  /\ encVals' = <<Sub32(getSensorVals[1], encStartVals[1]),
                  Sub32(getSensorVals[2], encStartVals[2])>>
  /\ CountStale
  /\ lpc' = IF lpc = "readD" THEN "stepD" ELSE "stepT"
  /\ UNCHANGED <<encStartVals, pastMode, stepOut, newMovement, motor, baseStale>>
  /\ LoopFrame

\* lines 315, 316 and 322: the doubles distanceElapsed and angleChange, each
\* held as <<numerator, denominator>>; the sum and the difference are taken
\* in int32_t before the conversion to double, which is exact, as is the
\* division by 2.0
distanceElapsed == <<Add32(encVals[1], encVals[2]), 2>>
angleChange == <<Sub32(encVals[1], encVals[2]), 1>>

\* line 317: distancePid->step(distanceElapsed)
LoopStepDistance ==
  /\ lpc = "stepD" /\ stepOut.distance = <<>>
  /\ \E o \in StepOutputs("distance") :
       stepOut' = [stepOut EXCEPT !.distance = <<o, distanceElapsed>>]
  /\ UNCHANGED <<lpc, encStartVals, encVals, pastMode, newMovement, motor,
                 baseHist>>
  /\ LoopFrame

\* line 317: anglePid->step(angleChange); the two steps are unsequenced
LoopStepAngle ==
  /\ lpc = "stepD" /\ stepOut.angle = <<>>
  /\ \E o \in StepOutputs("angle") :
       stepOut' = [stepOut EXCEPT !.angle = <<o, angleChange>>]
  /\ UNCHANGED <<lpc, encStartVals, encVals, pastMode, newMovement, motor,
                 baseHist>>
  /\ LoopFrame

\* line 317: model->driveVector(...)
LoopDrive ==
  /\ lpc = "stepD" /\ stepOut.distance # <<>> /\ stepOut.angle # <<>>
  /\ motor' = LoopDriveVector[stepOut.distance[1], stepOut.angle[1]]
  /\ stepOut' = NoOut
  /\ lpc' = "past"
  /\ UNCHANGED <<encStartVals, encVals, pastMode, newMovement, baseHist>>
  /\ LoopFrame

\* line 323: turnPid->step(angleChange)
LoopStepTurn ==
  /\ lpc = "stepT"
  /\ \E o \in StepOutputs("turn") :
       stepOut' = [stepOut EXCEPT !.turn = <<o, angleChange>>]
  /\ lpc' = "rotate"
  /\ UNCHANGED <<encStartVals, encVals, pastMode, newMovement, motor, baseHist>>
  /\ LoopFrame

\* line 323: model->rotate(...)
LoopRotate ==
  /\ lpc = "rotate"
  /\ motor' = LoopRotateBy[stepOut.turn[1]]
  /\ stepOut' = NoOut
  /\ lpc' = "past"
  /\ UNCHANGED <<encStartVals, encVals, pastMode, newMovement, baseHist>>
  /\ LoopFrame

\* line 330: pastMode = mode; line 333: rate->delayUntil
LoopPast ==
  /\ lpc = "past"
  /\ pastMode' = mode
  /\ lpc' = "while"
  /\ UNCHANGED <<encStartVals, encVals, stepOut, newMovement, motor, baseHist>>
  /\ LoopFrame

\* --------------------------------------------------------------------------
\* ChassisControllerPID::waitUntilSettled, called by the waiting client
\* --------------------------------------------------------------------------
WaitFrame == UNCHANGED <<newMovement, dtorCalled, task, alive, pidTarget,
                         lifeHist, driveVars,
                         confVars, sensor, loopVars, cpc, cArg, dpc, calls,
                         lastCall, cKind, cResets, stopsInRow, odom,
                         baseHist>>

\* line 416: the call
WaitCall ==
  /\ alive /\ dpc = "idle" /\ wpc = "idle" /\ waits < MaxWaits
  /\ waits' = waits + 1
  /\ wpc' = "switch"
  /\ wStart' = mode
  /\ wCmds' = IF cpc = "idle" THEN "none" ELSE "other"
  /\ wQuiet' = (cpc = "idle")
  /\ wVia' = "pending"
  /\ wBoth' = FALSE /\ wByErr' = FALSE /\ wStopped' = FALSE
  /\ wUnsettled' = FALSE
  /\ UNCHANGED <<mode, doneLooping, pidDisabled, motor, cClean>>
  /\ UNCHANGED <<newMovement, dtorCalled, task, alive, pidTarget, confVars,
                 lifeHist, driveVars,
                 sensor, loopVars, cpc, cArg, dpc, calls, lastCall, cKind,
                 stopsInRow, odom,
                 cResets, baseHist>>

\* line 421: switch (mode); lines 430-432 set completelySettled at once
WaitSwitch ==
  /\ wpc = "switch"
  /\ wpc' = CASE mode = "distance" -> "pollD"
              [] mode = "angle"    -> "pollT"
              [] OTHER             -> "stopD"
  /\ wVia' = IF mode = "none" THEN "default" ELSE wVia
  /\ UNCHANGED <<mode, doneLooping, pidDisabled, motor, waits, wStart, wCmds,
                 wQuiet, wBoth, wByErr, wStopped, wUnsettled, cClean>>
  /\ WaitFrame

\* a settle condition that accepts one settled PID
eitherSettled(sd, sa) == sd \/ sa

\* a settle condition that no report satisfies
neverSettled(sd, sa) == FALSE

\* line 450: the loop condition of waitForDistanceSettled on the two reports
distanceSettled(sd, sa) == sd /\ sa

\* line 450: while (!(distancePid->isSettled() && anglePid->isSettled()));
\* lines 461 and 423 when it is false.  The two reports are read in one
\* step: a settle verdict is unconstrained, so every pair of reports two
\* separate reads can see is a pair this step can see.
WaitPollDistance ==
  /\ wpc = "pollD"
  /\ \E ed \in ErrVerdicts("distance"), ea \in ErrVerdicts("angle") :
       LET sd == isSettled("distance", ed)
           sa == isSettled("angle", ea)
       IN  /\ wUnsettled' = ~(sd /\ sa)
           /\ IF distanceSettled(sd, sa)
              THEN /\ wpc' = "stopD"
                   /\ wVia' = "distance"
                   /\ wBoth' = (sd /\ sa)
                   /\ wByErr' = (ed /\ ea)
              ELSE /\ wpc' = "chkA"
                   /\ UNCHANGED <<wVia, wBoth, wByErr>>
  /\ UNCHANGED <<mode, doneLooping, pidDisabled, motor, waits, wStart, wCmds,
                 wQuiet, wStopped, cClean>>
  /\ WaitFrame

\* line 451: if (mode == angle) return false; line 457 otherwise
WaitCheckAngleMode ==
  /\ wpc = "chkA"
  /\ wpc' = IF mode = "angle" THEN "switch" ELSE "pollD"
  /\ UNCHANGED <<mode, doneLooping, pidDisabled, motor, waits, waitHist, cClean>>
  /\ WaitFrame

\* line 472: the loop condition of waitForAngleSettled on the report
angleSettled(st) == st

\* line 472: while (!turnPid->isSettled()); lines 483 and 427 when it is false
WaitPollTurn ==
  /\ wpc = "pollT"
  /\ \E et \in ErrVerdicts("turn") :
       LET st == isSettled("turn", et)
       IN  /\ wUnsettled' = ~st
           /\ IF angleSettled(st)
              THEN /\ wpc' = "stopD"
                   /\ wVia' = "angle"
                   /\ wBoth' = st
                   /\ wByErr' = et
              ELSE /\ wpc' = "chkD"
                   /\ UNCHANGED <<wVia, wBoth, wByErr>>
  /\ UNCHANGED <<mode, doneLooping, pidDisabled, motor, waits, wStart, wCmds,
                 wQuiet, wStopped, cClean>>
  /\ WaitFrame

\* line 473: if (mode == distance) return false; line 479 otherwise
WaitCheckDistanceMode ==
  /\ wpc = "chkD"
  /\ wpc' = IF mode = "distance" THEN "switch" ELSE "pollT"
  /\ UNCHANGED <<mode, doneLooping, pidDisabled, motor, waits, waitHist, cClean>>
  /\ WaitFrame

\* a stopAfterSettled that leaves the PID as it is
WaitLeaveEnabled(at, p, to) ==
  /\ wpc = at
  /\ wpc' = to
  /\ cClean' = FALSE
  /\ UNCHANGED <<mode, doneLooping, pidDisabled, motor, waits, waitHist>>
  /\ WaitFrame

\* stopAfterSettled, lines 487-489: flipDisable(true) on one PID
WaitDisable(at, p, to) ==
  /\ wpc = at
  /\ pidDisabled' = [pidDisabled EXCEPT ![p] = TRUE]
  /\ wpc' = to
  /\ cClean' = FALSE
  /\ UNCHANGED <<mode, doneLooping, motor, waits, waitHist>>
  /\ WaitFrame

WaitStopDistance == WaitDisable("stopD", "distance", "stopA")
WaitStopAngle    == WaitDisable("stopA", "angle", "stopT")
WaitStopTurn     == WaitDisable("stopT", "turn", "stopM")

\* stopAfterSettled, line 490: model->stop()
WaitStopModel ==
  /\ wpc = "stopM"
  /\ motor' = modelStop
  /\ wStopped' = TRUE
  /\ wpc' = "none"
  /\ cClean' = FALSE
  /\ UNCHANGED <<mode, doneLooping, pidDisabled, waits, wStart, wCmds, wQuiet,
                 wVia, wBoth, wByErr, wUnsettled>>
  /\ WaitFrame

\* line 437: mode = none
WaitSetNone ==
  /\ wpc = "none"
  /\ mode' = "none"
  /\ wpc' = "done"
  /\ cClean' = FALSE
  /\ UNCHANGED <<doneLooping, pidDisabled, motor, waits, waitHist>>
  /\ WaitFrame

\* line 438: doneLooping.store(true), and the return
WaitDone ==
  /\ wpc = "done"
  /\ doneLooping' = TRUE
  /\ wpc' = "idle"
  /\ cClean' = FALSE
  /\ UNCHANGED <<mode, pidDisabled, motor, waits, waitHist>>
  /\ WaitFrame

\* the latest waitUntilSettled call has returned
WaitReturned == wpc = "idle" /\ wVia # "pending"

\* --------------------------------------------------------------------------
\* moveDistanceAsync, turnAngleAsync and stop, called by the commanding client
\* --------------------------------------------------------------------------
CmdFrame == UNCHANGED <<dtorCalled, task, alive, confVars, sensor, loopVars,
                        lifeHist, driveVars,
                        wpc, dpc, waits, wStart, wVia, wBoth, wByErr, wStopped,
                        wUnsettled>>

\* the commands issued between the waitUntilSettled call and the poll that
\* set completelySettled; any command ends the quiet of the latest wait
CmdIssued(kind) ==
  /\ wCmds' = IF wpc = "idle" \/ wVia # "pending" THEN wCmds
              ELSE IF wCmds \in {"none", kind} THEN kind
              ELSE "other"
  /\ wQuiet' = FALSE

\* a call is issued: lines 343-348 and 380-384 (the resets), line 493
CmdCallWith(to, kind, how, arg, resets, o) ==
  /\ alive /\ dpc = "idle" /\ cpc = "idle" /\ calls < budget
  /\ ~moved.made
  /\ odom' = o
  /\ calls' = calls + 1
  /\ cpc' = to
  /\ cArg' = arg
  /\ lastCall' = kind /\ cKind' = how /\ cResets' = resets /\ cClean' = TRUE
  /\ stopsInRow' = IF kind = "stop" THEN stopsInRow + 1 ELSE 0
  /\ CmdIssued(kind)
  /\ IF kind = "stop"
     THEN UNCHANGED baseHist
     ELSE baseStale' = TRUE /\ staleTicks' = 0
  /\ UNCHANGED <<mode, doneLooping, newMovement, pidVars, motor>>
  /\ CmdFrame

CmdCall(to, kind, how, arg, resets) ==
  CmdCallWith(to, kind, how, arg, resets, odom)

\* flipDisable(b) on one PID
CmdFlip(at, p, b, to) ==
  /\ cpc = at
  /\ pidDisabled' = [pidDisabled EXCEPT ![p] = b]
  /\ cpc' = to
  /\ UNCHANGED <<mode, doneLooping, newMovement, pidTarget, motor, cArg, calls,
                 wCmds, wQuiet, cmdHist, baseHist>>
  /\ CmdFrame

\* doneLooping.store(false)
CmdDoneLooping(at, to) ==
  /\ cpc = at
  /\ doneLooping' = FALSE
  /\ cpc' = to
  /\ UNCHANGED <<mode, newMovement, pidVars, motor, cArg, calls, wCmds, wQuiet,
                 cmdHist, baseHist>>
  /\ CmdFrame

\* newMovement.store(true), and the return
CmdNewMovement(at) ==
  /\ cpc = at
  /\ newMovement' = TRUE
  /\ cpc' = "idle"
  /\ UNCHANGED <<mode, doneLooping, pidVars, motor, cArg, calls, wCmds, wQuiet,
                 cmdHist, baseHist>>
  /\ CmdFrame

\* boolToSign
boolToSign(b) == IF b THEN 1 ELSE -1

\* a conversion that forgets the gear ratio
DistanceTargetNoRatio(itarget) == DblMulInt(itarget, scales.straight)

\* line 354: itarget.convert(meter) * scales.straight * gearsetRatioPair.ratio
DistanceTarget(itarget) ==
  DblMulInt(DblMulInt(itarget, scales.straight), gearRatio)

\* lines 390-391: idegTarget.convert(degree) * scales.turn *
\* gearsetRatioPair.ratio * boolToSign(normalTurns)
TurnTarget(idegTarget) ==
  DblMulInt(DblMulInt(DblMulInt(idegTarget, scales.turn), gearRatio),
            boolToSign(normalTurns))

\* line 367: (itarget / scales.straight) * meter
TicksToLength(itarget) == DblDivInt(DblFromInt(itarget), scales.straight)

\* line 403: (idegTarget / scales.turn) * degree
TicksToAngle(idegTarget) == DblDivInt(DblFromInt(idegTarget), scales.turn)

\* moveDistanceAsync(QLength), lines 343-348
MoveDistanceAsyncCall ==
  CmdCall("m_enD", "distance", "typed", DblFromInt(request),
          {"distance", "angle"})

\* moveDistanceAsync(double), lines 365-368, into lines 343-348
MoveDistanceAsyncTicksCall ==
  CmdCall("m_enD", "distance", "ticks", TicksToLength(request),
          {"distance", "angle"})

\* a moveDistanceAsync that leaves the turn PID as it is
MoveLeaveTurn == CmdFlip("m_disT", "turn", pidDisabled.turn, "m_mode")

\* lines 349-351
MoveEnableDistance == CmdFlip("m_enD", "distance", FALSE, "m_enA")
MoveEnableAngle    == CmdFlip("m_enA", "angle", FALSE, "m_disT")
MoveDisableTurn    == CmdFlip("m_disT", "turn", TRUE, "m_mode")

\* line 352: mode = distance; lines 354-359: the two setTarget calls
MoveSetMode ==
  /\ cpc = "m_mode"
  /\ mode' = "distance"
  /\ pidTarget' = [pidTarget EXCEPT !.distance = DistanceTarget(cArg),
                                    !.angle = DblZero]
  /\ cpc' = "m_done"
  /\ UNCHANGED <<doneLooping, newMovement, pidDisabled, motor, cArg, calls,
                 wCmds, wQuiet, cmdHist, baseHist>>
  /\ CmdFrame

\* lines 361-362
MoveDoneLooping  == CmdDoneLooping("m_done", "m_new")
MoveNewMovement  == CmdNewMovement("m_new")

\* turnAngleAsync(QAngle), lines 380-384
TurnAngleAsyncCall ==
  CmdCall("t_enT", "angle", "typed", DblFromInt(request), {"turn"})

\* turnAngleAsync(double), lines 401-404, into lines 380-384
TurnAngleAsyncTicksCall ==
  CmdCall("t_enT", "angle", "ticks", TicksToAngle(request), {"turn"})

\* a turnAngleAsync that leaves the angle PID as it is
TurnLeaveAngle == CmdFlip("t_disA", "angle", pidDisabled.angle, "t_mode")

\* a turnAngleAsync that leaves the distance PID as it is
TurnLeaveDistance ==
  CmdFlip("t_disD", "distance", pidDisabled.distance, "t_disA")

\* lines 385-387
TurnEnableTurn      == CmdFlip("t_enT", "turn", FALSE, "t_disD")
TurnDisableDistance == CmdFlip("t_disD", "distance", TRUE, "t_disA")
TurnDisableAngle    == CmdFlip("t_disA", "angle", TRUE, "t_mode")

\* line 388: mode = angle; lines 390-395: the setTarget call
TurnSetMode ==
  /\ cpc = "t_mode"
  /\ mode' = "angle"
  /\ pidTarget' = [pidTarget EXCEPT !.turn = TurnTarget(cArg)]
  /\ cpc' = "t_done"
  /\ UNCHANGED <<doneLooping, newMovement, pidDisabled, motor, cArg, calls,
                 wCmds, wQuiet, cmdHist, baseHist>>
  /\ CmdFrame

\* lines 397-398
TurnDoneLooping == CmdDoneLooping("t_done", "t_new")
TurnNewMovement == CmdNewMovement("t_new")

\* stop(), line 493
StopCall == CmdCall("s_disD", "stop", "typed", DblZero, {})

\* stopAfterSettled from stop(), lines 487-489
StopDisableDistance == CmdFlip("s_disD", "distance", TRUE, "s_disA")
StopDisableAngle    == CmdFlip("s_disA", "angle", TRUE, "s_disT")
StopDisableTurn     == CmdFlip("s_disT", "turn", TRUE, "s_stop")

\* a stop() that also ends the movement
StopModelAndPark ==
  /\ cpc = "s_stop"
  /\ motor' = modelStop
  /\ mode' = "none" /\ doneLooping' = TRUE
  /\ cpc' = "idle"
  /\ UNCHANGED <<newMovement, pidVars, cArg, calls, wCmds, wQuiet, cmdHist,
                 baseHist>>
  /\ CmdFrame

\* lines 490 and 495: model->stop() from stopAfterSettled, then
\* ChassisController::stop(), and the return
StopModel ==
  /\ cpc = "s_stop"
  /\ motor' = modelStop
  /\ cpc' = "idle"
  /\ UNCHANGED <<mode, doneLooping, newMovement, pidVars, cArg, calls, wCmds,
                 wQuiet, cmdHist, baseHist>>
  /\ CmdFrame

\* --------------------------------------------------------------------------
\* Specifications
\* --------------------------------------------------------------------------
Lifecycle == StartThread \/ DtorFlag \/ DtorDelete \/ DtorMembers

Loop ==
  \/ LoopWhile \/ LoopIfDone \/ LoopIfNew \/ LoopSnap \/ LoopClear
  \/ LoopSwitch \/ LoopRead \/ LoopStepDistance \/ LoopStepAngle \/ LoopDrive
  \/ LoopStepTurn \/ LoopRotate \/ LoopPast

Wait ==
  \/ WaitCall \/ WaitSwitch \/ WaitPollDistance \/ WaitCheckAngleMode
  \/ WaitPollTurn \/ WaitCheckDistanceMode \/ WaitStopDistance
  \/ WaitStopAngle \/ WaitStopTurn \/ WaitStopModel \/ WaitSetNone \/ WaitDone

MoveSteps ==
  \/ MoveEnableDistance \/ MoveEnableAngle \/ MoveDisableTurn \/ MoveSetMode
  \/ MoveDoneLooping \/ MoveNewMovement

TurnSteps ==
  \/ TurnEnableTurn \/ TurnDisableDistance \/ TurnDisableAngle \/ TurnSetMode
  \/ TurnDoneLooping \/ TurnNewMovement

StopSteps ==
  \/ StopCall \/ StopDisableDistance \/ StopDisableAngle \/ StopDisableTurn
  \/ StopModel

\* the controller with its background thread, a waiting client and a
\* commanding client
Next ==
  \/ Lifecycle \/ Loop \/ Wait
  \/ MoveDistanceAsyncCall \/ MoveSteps
  \/ TurnAngleAsyncCall \/ TurnSteps
  \/ StopSteps

Spec == Init /\ [][Next]_vars

\* the controller with its background thread and both clients, settling one
\* movement: a command, the wait for it, the ticks in between
SpecSettle == InitSettle /\ [][Next]_vars

\* the controller with its background thread and the commanding client only
NextLife ==
  \/ Lifecycle \/ Loop
  \/ MoveDistanceAsyncCall \/ MoveSteps
  \/ TurnAngleAsyncCall \/ TurnSteps
  \/ StopSteps

SpecLife == Init /\ [][NextLife]_vars

\* the controller with its background thread and the commanding client,
\* which starts a movement and calls stop()
SpecStop == InitStop /\ [][NextLife]_vars

\* a construction, and the constructed controller with its background
\* thread and the commanding client
NextBuild == Ctor \/ NextLife

SpecBuild == InitBuild /\ [][NextBuild]_vars

\* --------------------------------------------------------------------------
\* OdomChassisControllerPID::driveToPoint to a point straight ahead, at the
\* distance d from the current position
\* --------------------------------------------------------------------------
\* setMoveThreshold(5_m) of the tests
ScenarioThreshold == 5
\* the distances requested: below, at and beyond the threshold of the tests
PointDistances == {ScenarioThreshold - 1, ScenarioThreshold, ScenarioTarget}

\* a driveToPoint that moves whatever the threshold
DriveToPointNotGated ==
  \E d \in PointDistances :
    /\ d <= odom.moveThreshold
    /\ CmdCallWith("m_enD", "distance", "point", DblFromInt(d),
                   {"distance", "angle"},
                   [odom EXCEPT !.d = d, !.prior = pidTarget])

\* the request is not beyond the threshold (for one equal to it both
\* outcomes are taken): driveToPoint returns without a movement
DriveToPointIgnored ==
  \E d \in PointDistances :
    /\ d <= odom.moveThreshold
    /\ alive /\ dpc = "idle" /\ cpc = "idle" /\ calls < budget
    /\ calls' = calls + 1
    /\ odom' = [odom EXCEPT !.d = d, !.prior = pidTarget]
    /\ UNCHANGED <<mode, doneLooping, newMovement, pidVars, motor, cpc, cArg,
                   lastCall, cKind, cResets, cClean, stopsInRow, wCmds,
                   wQuiet, baseHist>>
    /\ CmdFrame

\* the request is not below the threshold: moveDistance(d), into
\* moveDistanceAsync, part_000 lines 343-363
DriveToPointMove ==
  \E d \in PointDistances :
    /\ d >= odom.moveThreshold
    /\ CmdCallWith("m_enD", "distance", "point", DblFromInt(d),
                   {"distance", "angle"},
                   [odom EXCEPT !.d = d, !.prior = pidTarget])

DriveToPoint == DriveToPointIgnored \/ DriveToPointMove

\* the controller of the tests, constructed, with or without a threshold
InitOdom ==
  /\ InitObjects
  /\ NoDrive
  /\ alive = TRUE /\ ctor = "done"
  /\ gearset = "red" /\ modelGearing = "red" /\ modelUnits = "degrees"
  /\ motor = <<0, 0>>
  /\ scales \in {[straight |-> k, turn |-> k] : k \in {1, ScenarioScale}}
  /\ gearRatio = 1
  /\ normalTurns = TRUE
  /\ request = ScenarioTarget
  /\ budget = MaxCalls
  /\ odom \in {NoRequest(t) : t \in {0, ScenarioThreshold}}

\* driveToPoint calls, the steps of moveDistanceAsync and the
\* waitUntilSettled of a movement
NextOdom ==
  \/ DriveToPoint \/ MoveSteps
  \/ WaitCall \/ WaitSwitch \/ WaitPollDistance \/ WaitCheckAngleMode
  \/ WaitStopDistance \/ WaitStopAngle \/ WaitStopTurn \/ WaitStopModel
  \/ WaitSetNone \/ WaitDone

SpecOdom == InitOdom /\ [][NextOdom]_vars


\* the controller before startThread(): the two clients only
NextClients ==
  \/ Wait
  \/ MoveDistanceAsyncCall \/ MoveSteps
  \/ TurnAngleAsyncCall \/ TurnSteps
  \/ StopSteps

SpecClients == Init /\ [][NextClients]_vars

\* configurations for the target conversions: one scale varies while the
\* other keeps its scenario value
InitConv ==
  /\ InitController
  /\ NoDrive
  /\ scales \in
       {[straight |-> k, turn |-> ScenarioScale] : k \in 1..MaxScale}
       \cup {[straight |-> ScenarioScale, turn |-> k] : k \in 1..MaxScale}
  /\ gearRatio \in 1..MaxRatio
  /\ normalTurns \in BOOLEAN
  /\ request \in 1..MaxTarget
  /\ budget = MaxCalls

\* one client issuing async commands through either overload
NextConv ==
  \/ MoveDistanceAsyncCall \/ MoveDistanceAsyncTicksCall \/ MoveSteps
  \/ TurnAngleAsyncCall \/ TurnAngleAsyncTicksCall \/ TurnSteps

SpecConv == InitConv /\ [][NextConv]_vars

\* the steps of a running waitUntilSettled(), after the call itself
WaitRun ==
  \/ WaitSwitch \/ WaitPollDistance \/ WaitCheckAngleMode
  \/ WaitPollTurn \/ WaitCheckDistanceMode \/ WaitStopDistance
  \/ WaitStopAngle \/ WaitStopTurn \/ WaitStopModel \/ WaitSetNone \/ WaitDone

\* settling one movement under a fair scheduler: the loop task (its
\* rate->delayUntil at line 333 yields) and the waiting client (its
\* rate->delayUntil at lines 453 and 475 yields) each get to take their next
\* step; the commanding client is free to stall
SpecSettleFair ==
  /\ InitSettle
  /\ [][Next]_vars
  /\ WF_<<lpc, stepOut>>(Loop)
  /\ WF_wpc(WaitRun)

\* the wheels turn: both encoders show another reading
SensorMove ==
  /\ \E v \in 0..MaxSensor : v # sensor[1] /\ sensor' = <<v, v>>
  /\ UNCHANGED <<ctrlVars, pidVars, confVars, motor, loopVars, wpc, cpc, cArg,
                 dpc, calls, waits, waitHist, cmdHist, baseHist, lifeHist,
                 driveVars>>

\* the background thread, the commanding client issuing movements, and the
\* encoders changing under them
NextBaseline ==
  \/ StartThread \/ Loop
  \/ MoveDistanceAsyncCall \/ MoveSteps
  \/ TurnAngleAsyncCall \/ TurnSteps
  \/ SensorMove

SpecBaseline == Init /\ [][NextBaseline]_vars

\* a wheel has turned forward: one encoder shows a larger reading.  The
\* readings are looked at by lines 308, 314 and 321 only, so a reading that
\* changed since the last look is taken to change just before the next
SensorTurn ==
  /\ lpc \in {"snap", "readD", "readA"}
  /\ \E i \in 1..2, v \in 0..MaxSensor :
       v > sensor[i] /\ sensor' = [sensor EXCEPT ![i] = v]
  /\ UNCHANGED <<ctrlVars, pidVars, confVars, motor, loopVars, wpc, cpc, cArg,
                 dpc, calls, waits, waitHist, cmdHist, baseHist, lifeHist,
                 driveVars>>

\* the background thread computing the commands of one movement while the
\* encoders change independently
NextError ==
  \/ StartThread \/ Loop
  \/ MoveDistanceAsyncCall \/ MoveSteps
  \/ TurnAngleAsyncCall \/ TurnSteps
  \/ SensorTurn

SpecError == InitSettle /\ [][NextError]_vars

\* --------------------------------------------------------------------------
\* ChassisControllerPID(ChassisControllerPID &&other), lines 273-288
\* --------------------------------------------------------------------------
MoveFrame == UNCHANGED <<scales, gearRatio, normalTurns, request, budget,
                         gearset, ctor, modelGearing, modelUnits, builderVars,
                         pidVars, modelVars, loopVars, wpc, cpc, cArg, dpc,
                         calls, waits, waitHist, cmdHist, baseHist, lifeHist,
                         driveVars>>

\* the move constructor, run by a client while no call is in progress on a
\* controller whose thread runs: model, rate and PIDs are moved out of
\* other, the flags and the mode are copied, the task pointer is copied and
\* other.task is set to nullptr.  The thread keeps the context it was
\* created with at line 508, which is other.
MoveConstruct ==
  /\ alive /\ dpc = "idle" /\ cpc = "idle" /\ wpc = "idle"
  /\ task = "running" /\ ~moved.made
  /\ moved' = [made |-> TRUE, mode |-> mode, doneLooping |-> doneLooping,
               newMovement |-> newMovement, dtorCalled |-> dtorCalled,
               task |-> task, model |-> "held", pids |-> "held",
               context |-> "other",
               otherModel |-> "null", otherPids |-> "null",
               otherRate |-> "null"]
  /\ task' = "null"
  /\ UNCHANGED <<mode, doneLooping, newMovement, dtorCalled, alive>>
  /\ MoveFrame

\* moveDistanceAsync on the move-constructed controller, lines 343-362
MovedMoveDistanceAsync ==
  /\ moved.made /\ moved.mode # "distance"
  /\ moved' = [moved EXCEPT !.mode = "distance", !.doneLooping = FALSE,
                            !.newMovement = TRUE]
  /\ UNCHANGED ctrlVars
  /\ MoveFrame

\* the pointer member of its object that the loop's next step goes through
\* is null: task at line 301, model at lines 308, 314, 317, 321 and 323, the
\* PIDs at lines 317 and 323, rate at line 333
NullDeref ==
  \/ lpc = "while" /\ task = "null"
  \/ lpc \in {"snap", "readD", "readA", "rotate"} /\ moved.otherModel = "null"
  \/ lpc \in {"stepD", "stepT"} /\ moved.otherPids = "null"
  \/ lpc = "past" /\ moved.otherRate = "null"

\* a step of loop() through a null pointer is undefined: the thread may
\* fault here, or go on as the steps of Loop do
LoopFault ==
  /\ NullDeref
  /\ lpc' = "crashed"
  /\ UNCHANGED <<encStartVals, encVals, pastMode, stepOut, newMovement, motor,
                 baseHist>>
  /\ LoopFrame

\* a controller with a running thread and one movement, move-constructed
\* into a new controller and destroyed
NextMove ==
  \/ StartThread \/ Loop \/ LoopFault
  \/ MoveDistanceAsyncCall \/ MoveSteps
  \/ TurnAngleAsyncCall \/ TurnSteps
  \/ MoveConstruct \/ MovedMoveDistanceAsync
  \/ DtorFlag \/ DtorDelete \/ DtorMembers

SpecMove == InitSettle /\ [][NextMove]_vars

\* encoder readings <<left, right>> up to the ends of the int32_t range
Readings32 ==
  {<<-1, -1>>, <<1, 0>>, <<MaxInt32, MaxInt32>>, <<MaxInt32, MinInt32>>}

\* the encoders show other readings at the loop's next look (lines 308, 314
\* and 321)
SensorJump ==
  /\ lpc \in {"snap", "readD", "readA"}
  /\ \E r \in Readings32 : r # sensor /\ sensor' = r
  /\ UNCHANGED <<ctrlVars, pidVars, confVars, motor, loopVars, wpc, cpc, cArg,
                 dpc, calls, waits, waitHist, cmdHist, baseHist, lifeHist,
                 driveVars>>

\* the loop's next int32_t operation overflows: the subtractions of lines
\* 314 and 321, the sum of line 315, the difference of lines 316 and 322
Overflows32 ==
  \/ /\ lpc \in {"readD", "readA"}
     /\ \E i \in 1..2 : SubOverflows(getSensorVals[i], encStartVals[i])
  \/ lpc = "stepD" /\ stepOut.distance = <<>>
       /\ AddOverflows(encVals[1], encVals[2])
  \/ lpc = "stepD" /\ stepOut.angle = <<>>
       /\ SubOverflows(encVals[1], encVals[2])
  \/ lpc = "stepT" /\ SubOverflows(encVals[1], encVals[2])

\* signed overflow is undefined: a build wraps, as LoopRead and the PID
\* steps do, or traps, which ends the thread
LoopTrap ==
  /\ Overflows32
  /\ lpc' = "crashed"
  /\ UNCHANGED <<encStartVals, encVals, pastMode, stepOut, newMovement, motor,
                 baseHist>>
  /\ LoopFrame

\* the background thread computing the errors of one movement from encoder
\* readings anywhere in the int32_t range
NextInt ==
  \/ StartThread \/ Loop \/ LoopTrap
  \/ MoveDistanceAsyncCall \/ MoveSteps
  \/ TurnAngleAsyncCall \/ TurnSteps
  \/ SensorJump

SpecInt == InitSettle /\ [][NextInt]_vars

\* the two clients under a fair scheduler: the waiting client (its
\* rate->delayUntil at lines 453 and 475 yields) gets to take its next step;
\* the commanding client is free to stall
SpecClientsFair ==
  /\ Init
  /\ [][NextClients]_vars
  /\ WF_wpc(WaitRun)

\* --------------------------------------------------------------------------
\* Properties
\* --------------------------------------------------------------------------
AllDisabled == \A p \in PIDs : pidDisabled[p]
Enabled == {p \in PIDs : ~pidDisabled[p]}
\* the latest command has returned and no write of the waiting client landed
\* since it was issued
Returned(kind) == cpc = "idle" /\ lastCall = kind /\ cClean

\* C1: when a turnAngleAsync (and nothing else) was issued during a wait that
\* began in distance mode, the wait is never decided by the distance case
\* unless the distance and angle PIDs settled by their own error; and
\* symmetrically for a moveDistanceAsync issued during a wait that began in
\* angle mode.
C1_WaitFollowsNewCommand ==
  /\ (wStart = "distance" /\ wCmds = "angle" /\ wVia = "distance") => wByErr
  /\ (wStart = "angle" /\ wCmds = "distance" /\ wVia = "angle") => wByErr

\* C2: once waitUntilSettled has returned, with no command issued during or
\* after it, the last command each motor received is zero velocity.
C2_MotorsStayStopped ==
  (WaitReturned /\ wQuiet) => motor = <<0, 0>>

\* C3: once the destructor has deleted the task (and from then on, when the
\* members are destroyed) loop() has returned or was never started, and it
\* returned only after observing the termination flag.
C3_LoopDoneBeforeDestroyed ==
  /\ dpc \in {"members", "done"} => lpc \in {"idle", "exited"}
  /\ lpc = "exited" => dtorCalled

C3_Witness == ~alive /\ lpc = "exited" /\ pastMode # "none"

\* C4: after an async call has returned, at most one tick computes its error
\* against a baseline that was snapshotted before the call was issued.
C4_AtMostOneStaleTick == staleTicks <= 1

\* C5: when a waitUntilSettled that followed a moveDistanceAsync or a
\* turnAngleAsync has returned, with no other call since it began, mode is
\* none, doneLooping is true, all three PIDs are disabled and model->stop()
\* was issued.
C5_WaitPostState ==
  (WaitReturned /\ wQuiet /\ lastCall \in {"distance", "angle"})
    => (mode = "none" /\ doneLooping /\ AllDisabled /\ wStopped)

C5_Witness ==
  /\ WaitReturned /\ wQuiet /\ lastCall = "distance"
  /\ wStart = "distance" /\ wVia = "distance" /\ wByErr

\* C6: the step on which moveDistanceAsync returns, no write of the waiting
\* client having landed during the call, leaves the distance and angle PIDs
\* reset and enabled, the turn PID disabled, mode distance, newMovement true
\* and doneLooping false.
C6_MoveDistanceAsyncPost ==
  [][(cpc = "m_new" /\ cpc' = "idle" /\ cClean')
       => /\ cResets' = {"distance", "angle"}
          /\ Enabled' = {"distance", "angle"}
          /\ mode' = "distance"
          /\ newMovement' = TRUE
          /\ doneLooping' = FALSE]_vars

\* a moveDistanceAsync that pre-empted a turn has returned
C6_Witness ==
  /\ Returned("distance") /\ calls = 2
  /\ pidTarget.turn # DblZero /\ newMovement /\ mode = "distance"

\* C7: the step on which turnAngleAsync returns, no write of the waiting
\* client having landed during the call, leaves the turn PID reset and
\* enabled, the distance and angle PIDs disabled, mode angle, newMovement
\* true and doneLooping false; and whenever the latest async command has
\* returned with no write of the waiting client since it was issued, mode and
\* the enabled PIDs are those of that command.
C7_TurnAngleAsyncPost ==
  /\ [][(cpc = "t_new" /\ cpc' = "idle" /\ cClean')
          => /\ cResets' = {"turn"}
             /\ Enabled' = {"turn"}
             /\ mode' = "angle"
             /\ newMovement' = TRUE
             /\ doneLooping' = FALSE]_vars
  /\ [](Returned("angle") => (mode = "angle" /\ Enabled = {"turn"}))
  /\ [](Returned("distance")
          => (mode = "distance" /\ Enabled = {"distance", "angle"}))

\* a turnAngleAsync that pre-empted a distance move has returned
C7_Witness ==
  /\ Returned("angle") /\ calls = 2
  /\ pidTarget.distance # DblZero /\ mode = "angle"

\* the program counters of turnAngleAsync
TurnPcs == {"t_enT", "t_disD", "t_disA", "t_mode", "t_done", "t_new"}

\* C8: after moveDistanceAsync(d meters) the distance target is
\* d * scales.straight * gearRatio and the angle target is 0; after
\* turnAngleAsync(a degrees) the turn target is
\* a * scales.turn * gearRatio * boolToSign(normalTurns); and no step of
\* turnAngleAsync changes the distance or the angle target.
C8_TargetsByMultiplication ==
  /\ []((cpc = "idle" /\ lastCall = "distance" /\ cKind = "typed")
          => /\ pidTarget.distance
                  = DblFromInt(request * scales.straight * gearRatio)
             /\ pidTarget.angle = DblZero)
  /\ []((cpc = "idle" /\ lastCall = "angle" /\ cKind = "typed")
          => pidTarget.turn = DblFromInt(request * scales.turn * gearRatio
                                           * boolToSign(normalTurns)))
  /\ [][(cpc \in TurnPcs \/ cpc' \in TurnPcs)
          => /\ pidTarget'.distance = pidTarget.distance
             /\ pidTarget'.angle = pidTarget.angle]_vars

\* scales {2, 2}, ratio 1: 6 m gave 12 and 0, then 6 deg gave 12 and left
\* the distance target alone
C8_Witness ==
  /\ scales = [straight |-> ScenarioScale, turn |-> ScenarioScale]
  /\ gearRatio = 1 /\ normalTurns /\ request = ScenarioTarget
  /\ cpc = "idle" /\ lastCall = "angle" /\ cKind = "typed"
  /\ pidTarget.distance = DblFromInt(12)
  /\ pidTarget.angle = DblZero
  /\ pidTarget.turn = DblFromInt(12)

\* C9: after the unit-less moveDistanceAsync(t) the distance target is
\* t * gearRatio whatever scales.straight is, and after the unit-less
\* turnAngleAsync(t) the turn target is t * gearRatio * boolToSign(normalTurns)
\* whatever scales.turn is.
C9_TicksTargetIndependentOfScale ==
  /\ (cpc = "idle" /\ lastCall = "distance" /\ cKind = "ticks")
       => pidTarget.distance = DblFromInt(request * gearRatio)
  /\ (cpc = "idle" /\ lastCall = "angle" /\ cKind = "ticks")
       => pidTarget.turn
            = DblFromInt(request * gearRatio * boolToSign(normalTurns))

\* C10: a wait that began in distance mode, with no command or only
\* moveDistanceAsync issued before completelySettled was set, set it in the
\* distance case at a poll where the distance and the angle PID both reported
\* settled; one that began in angle mode, with no command or only
\* turnAngleAsync issued, set it in the angle case at a poll where the turn
\* PID reported settled.
C10_SettledOnlyWhenAllReport ==
  /\ (wVia # "pending" /\ wStart = "distance"
        /\ wCmds \in {"none", "distance"})
       => (wVia = "distance" /\ wBoth)
  /\ (wVia # "pending" /\ wStart = "angle" /\ wCmds \in {"none", "angle"})
       => (wVia = "angle" /\ wBoth)

C10_Witness ==
  /\ WaitReturned /\ wStart = "distance" /\ wCmds = "none"
  /\ wVia = "distance" /\ wBoth /\ wByErr

Polling == wpc \in {"switch", "pollD", "chkA", "pollT", "chkD"}
LoopRunning == lpc \notin {"idle", "exited"}

\* C11: while waitUntilSettled() polls, the running background loop can always
\* take its next step; and under fair scheduling, when from some point on no
\* poll finds a PID of the polled case unsettled and no command is in
\* progress, every waitUntilSettled() in progress eventually returns.
C11_WaitBlocksOnlyCaller ==
  /\ []((Polling /\ LoopRunning) => ENABLED <<Loop>>_<<lpc, stepOut>>)
  /\ (<>[](~wUnsettled) /\ <>[](cpc = "idle"))
       => [](wpc # "idle" => <>(wpc = "idle"))
\* a wait that found the PIDs unsettled while the loop drove the motors
C11_Witness ==
  /\ wpc = "chkA" /\ wQuiet
  /\ lpc = "past" /\ pastMode = "distance"
  /\ motor # modelStop

\* C12: every step of stop() leaves doneLooping, mode, newMovement and the
\* PID targets as they are, and when stop() returns all three PIDs are
\* disabled and both motors were last commanded to zero, whatever the state
\* it was called in.
C12_StopEffectAndFrame ==
  [][/\ StopSteps => UNCHANGED <<doneLooping, mode, newMovement, pidTarget>>
     /\ StopModel => (AllDisabled /\ motor = modelStop)']_vars
\* stop() has returned during a distance movement the loop is running
C12_Witness ==
  /\ cpc = "idle" /\ lastCall = "stop"
  /\ mode = "distance" /\ ~doneLooping /\ pidTarget.distance # DblZero
  /\ AllDisabled /\ motor = modelStop
  /\ LoopRunning

\* C13: after the first and after the second of two stop() calls in a row
\* has returned, the last command both motors received is zero, also while
\* the background loop runs a movement.
C13_StopTwiceLeavesZero ==
  (cpc = "idle" /\ stopsInRow \in {1, 2}) => motor = modelStop

\* C14: a construction with gear ratio 0 never yields a controller: it
\* throws at the check, no motor receives a command, the model keeps its
\* gearing and encoder units, and no background loop is started; a
\* construction with a non-zero ratio does not throw, and the controller it
\* yields has set the model to the given gearset and to degrees.
C14_ZeroRatioRejected ==
  /\ gearRatio = 0 =>
       /\ ctor \in {"none", "check", "thrown"} /\ ~alive
       /\ motor = PriorCommand
       /\ modelGearing = PriorGearing /\ modelUnits = PriorUnits
       /\ task = "null" /\ lpc = "idle"
  /\ gearRatio # 0 => ctor # "thrown"
  /\ alive => (gearRatio # 0 /\ modelGearing = gearset /\ modelUnits = "degrees")
\* a construction with ratio 0 and a gearset other than the model's has thrown
C14_Witness ==
  ctor = "thrown" /\ gearRatio = 0 /\ gearset # PriorGearing

\* C15: over the controller's lifetime, construction by the builder
\* included, at most one thread is ever created, however often
\* startThread() is called; while the controller is not being destroyed
\* that one loop is running; the thread is deleted at most once, only by
\* the destructor, and a destroyed controller has deleted the one it
\* created.
C15_OneLoopPerLifetime ==
  /\ loops <= 1 /\ teardowns <= loops
  /\ restarted => loops = 1
  /\ (task = "running") = (loops = 1 /\ teardowns = 0)
  /\ (loops = 1 /\ ~dtorCalled) => LoopRunning
  /\ teardowns = 1 => (dtorCalled /\ dpc \in {"members", "done"})
  /\ dpc = "done" => teardowns = loops
\* a controller whose startThread() was called again was destroyed
C15_Witness ==
  restarted /\ dpc = "done" /\ loops = 1 /\ teardowns = 1

\* the steps of loop() that compute control: the baseline snapshot, a PID
\* step, a command to the model
LoopComputes ==
  \/ LoopSnap \/ LoopStepDistance \/ LoopStepAngle \/ LoopStepTurn
  \/ LoopDrive \/ LoopRotate

\* C16: while doneLooping is true, and while mode is none, loop() takes no
\* step that snapshots the encoder baseline, steps a PID or commands the
\* model.
C16_IdleLoopComputesNothing ==
  [][(doneLooping \/ mode = "none") => ~LoopComputes]_vars

\* the limit of the kind of command the motors received last
Limit == IF cmdKind = "velocity" THEN maxVelocity ELSE maxVoltage

\* C17: whatever the arguments, inside or outside [-1, 1], the command each
\* motor received from forward, rotate, driveVector, left, right and stop is
\* a velocity of magnitude at most maxVelocity, and the one from
\* driveVectorVoltage, tank and arcade a voltage of magnitude at most
\* maxVoltage.
C17_CommandsWithinLimits ==
  /\ op \in {"forward", "rotate", "driveVector", "left", "right", "stop"}
       => cmdKind = "velocity"
  /\ op \in {"driveVectorVoltage", "tank", "arcade"} => cmdKind = "voltage"
  /\ Abs(motor[1]) <= Limit /\ Abs(motor[2]) <= Limit
\* driveVector was called with both arguments beyond 1 and drove one motor
\* at the limit
C17_Witness ==
  /\ op = "driveVector" /\ ix > SpeedDen /\ iy > SpeedDen
  /\ motor = <<maxVelocity, 0>>

\* n / d with the fraction discarded, d > 0
Trunc(n, d) == Sgn(n) * (Abs(n) \div d)

\* driveVector and driveVectorVoltage on the arguments f and y, with
\* leftOutput and rightOutput before the normalisation as multiples of
\* 1 / SpeedDen: unchanged values reach the motors scaled by the limit; when
\* normalised, the output of larger magnitude is exactly +1 or -1 and its
\* motor is commanded to the limit
DriveVectorShape(f, y) ==
  LET l   == ClampUnit(f) + ClampUnit(y)
      r   == ClampUnit(f) - ClampUnit(y)
      mag == Max(Abs(l), Abs(r))
      out == driveVectorOutputs(f, y)
  IN  /\ mag <= SpeedDen =>
           motor = <<Trunc(l * Limit, SpeedDen), Trunc(r * Limit, SpeedDen)>>
      /\ (mag > SpeedDen /\ Abs(l) = mag) =>
           (out[1] = DblFromInt(Sgn(l)) /\ motor[1] = Sgn(l) * Limit)
      /\ (mag > SpeedDen /\ Abs(r) = mag) =>
           (out[2] = DblFromInt(Sgn(r)) /\ motor[2] = Sgn(r) * Limit)

\* left * right' == right * left' in binary64, left and right the outputs
\* before and left' and right' after the normalisation
DriveVectorRatioExact(f, y) ==
  LET l   == ClampUnit(f) + ClampUnit(y)
      r   == ClampUnit(f) - ClampUnit(y)
      out == driveVectorOutputs(f, y)
  IN  DblMulInt(out[2], l) = DblMulInt(out[1], r)

\* the commands sent keep the ratio left : right to within one unit of
\* command
DriveVectorRatioRounded(f, y) ==
  LET l   == ClampUnit(f) + ClampUnit(y)
      r   == ClampUnit(f) - ClampUnit(y)
      mag == Max(Abs(l), Abs(r))
  IN  Abs(motor[1] * r - motor[2] * l) < mag \/ mag = 0

DriveVectorApplied == op \in {"driveVector", "driveVectorVoltage"}

\* C18 as stated: driveVector(f, y) takes left = f + y and right = f - y of
\* the clamped arguments, uses them unchanged when neither exceeds 1 and
\* otherwise divides both by the larger magnitude, which makes the larger one
\* exactly +/-1 and keeps left * right' == right * left'; the results times
\* the limit are the commands sent.
C18_DriveVectorRatioExact ==
  DriveVectorApplied =>
    (DriveVectorShape(ix, iy) /\ DriveVectorRatioExact(ix, iy))

\* C18 amended: as stated, but the ratio is kept up to rounding: the
\* commands sent satisfy |left' * right - right' * left| < max(|left|, |right|).
C18_DriveVectorRatioRounded ==
  DriveVectorApplied =>
    (DriveVectorShape(ix, iy) /\ DriveVectorRatioRounded(ix, iy))
\* driveVector(25/32, 24/32): left = 49/32 is normalised to 1, right = 1/32
\* to the double nearest 1/49
C18_Witness ==
  /\ op = "driveVector" /\ ix = 25 /\ iy = 24
  /\ motor = <<maxVelocity, 12>>

\* the voltage tank sends for the clamped speed c under threshold t
TankSide(c, t) == IF Abs(c) < t THEN 0 ELSE Trunc(c * maxVoltage, SpeedDen)

\* C19: after tank(x, y, t) the left voltage is 0 when |clamp(x)| < t and
\* clamp(x) * maxVoltage when |clamp(x)| >= t, whatever y is, and the right
\* voltage is the same function of y and t, whatever x is.
C19_TankStrictDeadband ==
  op = "tank" =>
    /\ motor[1] = TankSide(ClampUnit(ix), ithreshold)
    /\ motor[2] = TankSide(ClampUnit(iy), ithreshold)
\* a left speed equal to the threshold passed through while a right speed
\* just below it was zeroed
C19_Witness ==
  /\ op = "tank" /\ ithreshold = SpeedDen \div 4
  /\ ix = ithreshold /\ iy = ithreshold - 1
  /\ motor = <<maxVoltage \div 4, 0>>

\* C20: after arcade(f, y, t), when |clamp(f)| <= t and |clamp(y)| <= t both
\* voltages are 0; a forward speed of magnitude equal to t > 0 counts as 0
\* in arcade (with a yaw beyond t the motors get yaw and -yaw times
\* maxVoltage) while tank with the same arguments passes it through.
C20_ArcadeNonStrictDeadband ==
  op = "arcade" =>
    LET f == ClampUnit(ix)
        y == ClampUnit(iy)
    IN  /\ (Abs(f) <= ithreshold /\ Abs(y) <= ithreshold) => motor = <<0, 0>>
        /\ (Abs(f) = ithreshold /\ Abs(y) > ithreshold) =>
             motor = <<Trunc(y * maxVoltage, SpeedDen),
                       Trunc(-y * maxVoltage, SpeedDen)>>
        /\ (Abs(f) = ithreshold /\ ithreshold > 0) =>
             tank(ix, iy, ithreshold)[1] = Trunc(f * maxVoltage, SpeedDen)
\* both arguments of arcade had the magnitude of the threshold
C20_Witness ==
  /\ op = "arcade" /\ ithreshold = SpeedDen \div 4
  /\ ix = ithreshold /\ iy = -ithreshold
  /\ motor = <<0, 0>>

\* the voltage sent for the output c / SpeedDen: clamped to [-1, 1] and
\* multiplied by maxVoltage
Voltage(c) == Trunc(ClampUnit(c) * maxVoltage, SpeedDen)

\* C21: after arcade(f, y, t), with f and y the clamped and deadbanded
\* arguments and maxInput = copysign(max(|f|, |y|), f), the voltages sent
\* to <<left, right>> are those of <<maxInput, f - y>> when f and y are
\* both >= 0 or both < 0 and those of <<f + y, maxInput>> when exactly one
\* of them is < 0, each clamped to [-1, 1] and multiplied by maxVoltage.
C21_ArcadeQuadrants ==
  op = "arcade" =>
    LET cf == ClampUnit(ix)
        cy == ClampUnit(iy)
        f  == IF Abs(cf) <= ithreshold THEN 0 ELSE cf
        y  == IF Abs(cy) <= ithreshold THEN 0 ELSE cy
        mx == Max(Abs(f), Abs(y))
        maxInput == IF f < 0 THEN -mx ELSE mx
    IN  /\ cmdKind = "voltage"
        /\ (f >= 0 /\ y >= 0) => motor = <<Voltage(maxInput), Voltage(f - y)>>
        /\ (f >= 0 /\ y < 0)  => motor = <<Voltage(f + y), Voltage(maxInput)>>
        /\ (f < 0 /\ y >= 0)  => motor = <<Voltage(f + y), Voltage(maxInput)>>
        /\ (f < 0 /\ y < 0)   => motor = <<Voltage(maxInput), Voltage(f - y)>>
\* arcade(-1/2, 1/4, 0): backwards with a turn, left = -1/4 and right =
\* maxInput = -1/2
C21_Witness ==
  /\ op = "arcade" /\ ithreshold = 0
  /\ ix = -(SpeedDen \div 2) /\ iy = SpeedDen \div 4
  /\ motor = <<-(maxVoltage \div 4), -(maxVoltage \div 2)>>

\* std::clamp(x, -1.0, 1.0) written out
Clamped(x) ==
  IF x < -SpeedDen THEN -SpeedDen ELSE IF x > SpeedDen THEN SpeedDen ELSE x

\* C22: for forward, rotate, driveVector, driveVectorVoltage, tank, arcade,
\* left and right, the commands the motors received for the arguments x (and
\* y) are exactly the commands of the same operation on clamp(x, -1, 1) (and
\* clamp(y, -1, 1)); a call has no outcome but these commands, whatever its
\* arguments.
C22_OutOfRangeClamped ==
  LET cx == Clamped(ix)
      cy == Clamped(iy)
  IN  /\ op \in {"none", "forward", "rotate", "driveVector",
                  "driveVectorVoltage", "stop", "tank", "arcade", "left",
                  "right"}
      /\ op = "forward" => motor = forward(cx)
      /\ op = "rotate" => motor = rotate(cx)
      /\ op = "driveVector" => motor = driveVector(cx, cy)
      /\ op = "driveVectorVoltage" => motor = driveVectorVoltage(cx, cy)
      /\ op = "tank" => motor = tank(cx, cy, ithreshold)
      /\ op = "arcade" => motor = arcade(cx, cy, ithreshold)
      /\ op = "left" => motor[1] = left(cx)
      /\ op = "right" => motor[2] = right(cx)
\* tank(40/32, -40/32, t) drove the motors as tank(1, -1, t) does
C22_Witness ==
  /\ op = "tank" /\ ix = MaxSpeed /\ iy = -MaxSpeed /\ MaxSpeed > SpeedDen
  /\ motor = <<maxVoltage, -maxVoltage>>

\* build() of the ChassisControllerBuilder returned a controller
Built == built.kind \in {"ChassisControllerPID", "ChassisControllerIntegrated"}
\* no ChassisControllerPID exists and no thread was created
NoControllerNoThread ==
  ~alive /\ ctor = "none" /\ task = "null" /\ loops = 0 /\ lpc = "idle"

\* C23: build() on a ChassisControllerBuilder that never received motors
\* throws and constructs nothing (no model, no controller, no thread),
\* whatever other with* calls were made; the same holds for build() on an
\* AsyncPosControllerBuilder; and a build() after motors were given does not
\* throw.
C23_BuildWithoutMotorsFails ==
  /\ (built.kind # "none" /\ given.motors = Null) =>
       (built = [kind |-> "thrown"] /\ NoControllerNoThread)
  /\ (built.kind # "none" /\ given.motors # Null) => Built
  /\ (posBuilt.kind # "none" /\ given.posMotor = Null) =>
       posBuilt = [kind |-> "thrown"]
  /\ (posBuilt.kind # "none" /\ given.posMotor # Null) =>
       posBuilt.kind \in {"AsyncPosPIDController",
                          "AsyncPosIntegratedController"}
\* both builders were given gains and other arguments but no motors, and
\* both build() calls threw
C23_Witness ==
  /\ built = [kind |-> "thrown"] /\ posBuilt = [kind |-> "thrown"]
  /\ builder.hasGains /\ builder.sensorsSetByUser
  /\ posBuilder.hasGains
  /\ NoControllerNoThread

\* C24: a build() that returns yields a ChassisControllerPID whose loop
\* thread exists when build() returns if withGains was called before it, in
\* either overload and at any point, and otherwise a
\* ChassisControllerIntegrated with no ChassisControllerPID and no thread.
C24_GainsSelectVariant ==
  Built =>
    /\ built.kind = "ChassisControllerPID" <=> given.gains # <<>>
    /\ built.kind = "ChassisControllerPID" =>
         (alive /\ ctor = "done" /\ task = "running" /\ loops = 1
          /\ lpc = "while")
    /\ built.kind = "ChassisControllerIntegrated" => NoControllerNoThread
\* gains were given first and motors last; the controller is PID-based and
\* its loop runs
C24_Witness ==
  /\ built.kind = "ChassisControllerPID"
  /\ given.last = "withMotors" /\ given.calls > 2
  /\ task = "running" /\ loops = 1

\* C25: after withGains(d, a, t), the arguments in the order of the header,
\* and build(), the distance PID carries d, the angle PID carries a and the
\* turn PID carries t; after withGains(d, a) the turn PID carries a as the
\* angle PID does.
C25_GainsReachTheirPid ==
  built.kind = "ChassisControllerPID" =>
    LET g == given.gains
    IN  /\ built.pids.distancePid = g[1]
        /\ built.pids.anglePid = g[2]
        /\ built.pids.turnPid = IF Len(g) = 3 THEN g[3] ELSE g[2]
\* three different gains reached the three PIDs
C25_Witness ==
  /\ given.gains = <<1, 2, 3>>
  /\ built.kind = "ChassisControllerPID"
  /\ built.pids = [distancePid |-> 1, anglePid |-> 2, turnPid |-> 3]

\* C26: the sensors of the built model are those of the latest withSensors
\* call if there was one, whatever withMotors calls came after it, and
\* otherwise the integrated encoders of the motors of the latest withMotors
\* call.
C26_SensorsOfModel ==
  Built =>
    built.model.sensors =
      IF given.sensors # Null THEN given.sensors ELSE getEncoder(given.motors)
\* withSensors came before the last withMotors and the model has the user's
\* sensors
C26_Witness ==
  /\ Built /\ given.last = "withMotors" /\ given.sensors # Null
  /\ built.model.sensors = given.sensors
  /\ built.model.motors = given.motors

\* the gearset of the builder: the one last passed to withGearset, or the
\* default
BuilderGearset ==
  IF given.gearset # "none" THEN given.gearset
  ELSE NewChassisControllerBuilder.gearset

\* C27: the max velocity of the built model is v if withMaxVelocity(v) was
\* called, before or after withGearset, and otherwise the max velocity of
\* the builder's gearset, the default gearset when withGearset was never
\* called.
C27_MaxVelocityOfModel ==
  Built =>
    built.model.maxVelocity =
      IF given.maxVelocity # 0 THEN given.maxVelocity
      ELSE GearsetVelocity[BuilderGearset]

\* the distance d in ticks
Ticks(d) == DblFromInt(d * scales.straight * gearRatio)

\* C28: with move threshold T, a driveToPoint to a point at distance d < T
\* leaves the target of every PID as it was before the call (0 initially);
\* with d > T, once moveDistanceAsync has returned, the distance target is d
\* in ticks and the turn target is still 0.
C28_ThresholdGatesTargets ==
  /\ (odom.d # 0 /\ odom.d < odom.moveThreshold) => pidTarget = odom.prior
  /\ (odom.d > odom.moveThreshold /\ cpc = "idle") =>
       (pidTarget.distance = Ticks(odom.d) /\ pidTarget.turn = DblZero)
  /\ (odom.d = 0 /\ cpc = "idle") => pidTarget = [p \in PIDs |-> DblZero]
\* after a move of 6 m set the target of 12 ticks, a request of 4 m under
\* the threshold of 5 m left it there
C28_Witness ==
  /\ odom.moveThreshold = ScenarioThreshold /\ odom.d = ScenarioThreshold - 1
  /\ calls = 2 /\ scales.straight = ScenarioScale
  /\ odom.prior.distance = DblFromInt(ScenarioTarget * ScenarioScale)
  /\ pidTarget = odom.prior

\* every PID that waitUntilSettled() polls in the current mode is disabled
RelevantDisabled ==
  /\ mode = "distance" => (pidDisabled.distance /\ pidDisabled.angle)
  /\ mode = "angle" => pidDisabled.turn

LoopFrom(at) == lpc = at /\ lpc' # lpc

\* C30: a tick that found doneLooping false and then finds mode different
\* from pastMode (the mode the previous computing tick left) or newMovement
\* true snapshots the sensor positions of that moment as encStartVals and
\* clears newMovement, both before the switch on mode and so before any
\* error is computed; a tick that finds neither goes to the switch with
\* encStartVals as it was; and nothing else in loop() changes encStartVals.
C30_BaselineSnapshot ==
  [][/\ LoopFrom("ifDone") => lpc' = IF doneLooping THEN "while" ELSE "ifNew"
     /\ LoopFrom("ifNew") =>
          lpc' = IF mode # pastMode \/ newMovement THEN "snap" ELSE "switch"
     /\ LoopFrom("snap") => (encStartVals' = sensor /\ lpc' = "clear")
     /\ LoopFrom("clear") => (~newMovement' /\ lpc' = "switch")
     /\ (lpc' = "ifNew" /\ lpc # "ifNew") => lpc = "ifDone"
     /\ (lpc' = "switch" /\ lpc # "switch") => lpc \in {"ifNew", "clear"}
     /\ (lpc' \in {"readD", "readA"} /\ lpc' # lpc) => lpc = "switch"
     /\ encVals' # encVals => lpc \in {"readD", "readA"}
     /\ encStartVals' # encStartVals => lpc \in {"snap", "idle"}
     /\ pastMode' # pastMode => (lpc = "past" /\ pastMode' = mode)]_vars
\* a second movement in the same mode: the tick found mode = pastMode and
\* newMovement true and took the moved encoders as the new baseline
C30_Witness ==
  /\ lpc = "clear" /\ mode = pastMode /\ mode = "distance" /\ newMovement
  /\ calls = 2
  /\ encStartVals = <<MaxSensor, MaxSensor>> /\ encStartVals = sensor

\* a PID step of loop(): the pending output of p goes from none to some
Stepped(p) == stepOut[p] = <<>> /\ stepOut'[p] # <<>>

\* C31: a computing tick takes encVals as the sensor readings minus the
\* baseline; in distance mode it steps the distance PID with
\* (encVals[0] + encVals[1]) / 2 and the angle PID with
\* encVals[0] - encVals[1], steps no turn PID and commands
\* driveVector(distance output, angle output); in angle mode it steps the
\* turn PID alone with encVals[0] - encVals[1] and commands
\* rotate(turn output), whose left and right commands are negations of each
\* other; and the loop commands the motors at no other place.
C31_CommandsFromDeltas ==
  [][/\ LoopFrom("switch") =>
          lpc' = CASE mode = "distance" -> "readD"
                   [] mode = "angle"    -> "readA"
                   [] OTHER             -> "past"
     /\ (LoopFrom("readD") \/ LoopFrom("readA")) =>
          /\ encVals' = <<sensor[1] - encStartVals[1],
                          sensor[2] - encStartVals[2]>>
          /\ lpc' = IF lpc = "readD" THEN "stepD" ELSE "stepT"
     /\ Stepped("distance") =>
          /\ lpc = "stepD"
          /\ stepOut'.distance[2] = <<encVals[1] + encVals[2], 2>>
     /\ Stepped("angle") =>
          /\ lpc = "stepD"
          /\ stepOut'.angle[2] = <<encVals[1] - encVals[2], 1>>
     /\ Stepped("turn") =>
          /\ lpc = "stepT"
          /\ stepOut'.turn[2] = <<encVals[1] - encVals[2], 1>>
     /\ lpc = "stepD" => stepOut.turn = <<>>
     /\ lpc \in {"stepT", "rotate"} =>
          (stepOut.distance = <<>> /\ stepOut.angle = <<>>)
     /\ LoopFrom("stepD") =>
          /\ stepOut.distance # <<>> /\ stepOut.angle # <<>>
          /\ motor' = driveVector(stepOut.distance[1] * SpeedDen,
                                  stepOut.angle[1] * SpeedDen)
     /\ LoopFrom("rotate") =>
          /\ stepOut.turn # <<>>
          /\ motor' = rotate(stepOut.turn[1] * SpeedDen)
          /\ motor'[1] = -motor'[2]
     /\ motor' # motor => lpc \in {"stepD", "rotate"}]_vars
\* a distance tick whose baseline is <<1, 0>> read <<1, 1>>: the distance
\* PID was stepped with 1/2 and the angle PID with -1
C31_Witness ==
  /\ lpc = "stepD" /\ encStartVals = <<1, 0>> /\ encVals = <<0, 1>>
  /\ stepOut.distance # <<>> /\ stepOut.angle # <<>>
  /\ stepOut.distance[2] = <<1, 2>> /\ stepOut.angle[2] = <<-1, 1>>

\* C32: once moveDistanceAsync or turnAngleAsync has returned, newMovement
\* stays true until the loop has taken a baseline snapshot after that call
\* was issued: the loop's newMovement.store(false) for an earlier movement
\* does not erase the request of a later call.
C32_RequestNotLost == (cpc = "idle" /\ baseStale) => newMovement

\* no client call is in progress
Quiescent == cpc = "idle" /\ wpc = "idle"
\* the PIDs the loop steps in mode m
Authoritative(m) ==
  CASE m = "distance" -> {"distance", "angle"}
    [] m = "angle"    -> {"turn"}
    [] OTHER          -> {}

\* C33 as stated: whenever no client call is in progress and mode is
\* distance or angle, the enabled PIDs are exactly the PIDs of that mode.
C33_EnabledMatchMode ==
  (Quiescent /\ mode \in {"distance", "angle"}) =>
    \A p \in PIDs : pidDisabled[p] <=> p \notin Authoritative(mode)
\* C33: whenever no client call is in progress and mode is distance or
\* angle, every PID that is not of that mode is disabled; the PIDs of that
\* mode are enabled if the latest command is the movement (not stop()) and
\* no write of a waitUntilSettled landed since that command was issued.
C33_EnabledMatchModeUnlessStopped ==
  (Quiescent /\ mode \in {"distance", "angle"}) =>
    \A p \in PIDs :
      /\ p \notin Authoritative(mode) => pidDisabled[p]
      /\ (p \in Authoritative(mode) /\ lastCall # "stop" /\ cClean)
           => ~pidDisabled[p]
\* a turn issued after a distance movement has returned: the turn PID alone
\* is enabled
C33_Witness ==
  /\ Quiescent /\ calls = 2 /\ mode = "angle" /\ lastCall = "angle" /\ cClean
  /\ ~pidDisabled.turn /\ pidDisabled.distance /\ pidDisabled.angle

\* the loop thread is executing loop()
LoopAlive == lpc \notin {"idle", "exited", "crashed"}

\* C34: once a controller with a running loop was move-constructed into a
\* new one, the loop works on the new controller's members, and destroying
\* the moved-from object does not end the loop.
C34_LoopFollowsMove ==
  moved.made =>
    /\ moved.context = "moved"
    /\ lpc # "crashed"
    /\ dpc # "idle" => LoopAlive

\* C35: the position controllers of a built ChassisControllerIntegrated are
\* made from the motors of the latest withMotors call, in the skid-steer and
\* in the x-drive layout, and never from a motor handle that was not set.
C35_ControllersUseGivenMotors ==
  built.kind = "ChassisControllerIntegrated" =>
    (built.controllers # Null /\ built.controllers = given.motors)

\* C36: after withDerivativeFilters(distanceFilter, turnFilter, angleFilter)
\* and build(), the distance PID of the built ChassisControllerPID has the
\* distance filter, the turn PID the turn filter and the angle PID the angle
\* filter.
C36_FiltersReachTheirPid ==
  (built.kind = "ChassisControllerPID" /\ given.filters # <<>>) =>
    /\ built.filters.distancePid = given.filters[1]
    /\ built.filters.turnPid = given.filters[2]
    /\ built.filters.anglePid = given.filters[3]

\* C37: for all 32-bit readings and baselines the errors a tick feeds to the
\* PIDs are the mathematical values: no subtraction reading - baseline, no
\* sum leftDelta + rightDelta and no difference leftDelta - rightDelta
\* leaves the int32_t range, and the values stepped with are those results.
C37_ErrorsExact ==
  /\ ~Overflows32
  /\ lpc # "crashed"
  /\ \A p \in PIDs :
       stepOut[p] # <<>> =>
         /\ ~AddOverflows(encVals[1], encVals[2])
         /\ ~SubOverflows(encVals[1], encVals[2])
         /\ stepOut[p][2] = IF p = "distance"
                            THEN <<encVals[1] + encVals[2], 2>>
                            ELSE <<encVals[1] - encVals[2], 1>>

====
